---- MODULE Spec2Model ----
(***************************************************************************)
(* HutWatch ingestion-and-resilience pipeline: advertisement decoders,     *)
(* SensorStore, the BLE scan supervisor, the aggregator and the remote     *)
(* poller, modelled from src/hutwatch.                                     *)
(*                                                                         *)
(* Units.  Time is the wall clock in seconds (datetime.now()).             *)
(* Temperatures are in thousandths of a degree Celsius, humidity in        *)
(* 1/10000 percent, pressure in Pa and battery voltage in mV, so that the  *)
(* decoders' scalings (x0.005, x0.0025, /100, /1000, /10) stay integral.   *)
(* An Optional[...] value is a sequence of length at most one: None is     *)
(* <<>> and a present value v is <<v>>.                                    *)
(***************************************************************************)
EXTENDS Integers, Sequences, FiniteSets, TLC

VARIABLES
    now,              \* wall clock, seconds
    \* ---- SensorStore (ble/sensor_store.py)
    latest,           \* SensorStore._latest : mac -> reading
    history,          \* SensorStore._history : mac -> deque of readings
    arrivals,         \* ghost: every reading handed to add_reading, per mac, in order
    histResult,       \* the value returned by the last get_history call
    lock,             \* SensorStore._lock : "free", or the thread holding it
    addPc,            \* where the thread calling add_reading is
    pending,          \* the reading that thread is adding
    readPc,           \* where the thread calling a get_* method is
    readCall,         \* the call that thread is making
    returned,         \* what its last call returned
    \* ---- AppConfig / Database (models.py, db.py)
    sensors,          \* AppConfig.sensors : list of SensorConfig
    devices,          \* rows of the devices table
    readingsTable,    \* rows of the readings table (aggregated buckets), oldest first
    aggPc,            \* where the Aggregator._run task is
    aggLeft,          \* seconds left of the sleep the aggregator is suspended in
    clockSteps,       \* ghost: times the wall clock has been set back
    lastAggregate,    \* ghost: what the last _aggregate wrote
    aggRunning,       \* Aggregator._running
    weatherPc,        \* where the Aggregator._run_weather task is ("none": no such task)
    weatherLeft,      \* seconds left of the sleep the weather task is suspended in
    weatherTable,     \* rows of the weather table, oldest first
    stopResult,       \* ghost: calls of Aggregator.stop() so far, and whether the last one raised
    lastTick,         \* ghost: the task whose tick ran last, and whether it raised
    tickAt,           \* ghost: the wall-clock time the last _aggregate read, or None
    counted,          \* ghost: the (mac, timestamp) of every reading a tick has had in its window
    \* ---- HutWatchApp (app.py)
    appPc,            \* where HutWatchApp.run is
    appStep,          \* the step of start() that comes next
    appConfig,        \* what load_config returned: which optional components are configured
    appRunning,       \* HutWatchApp._running
    appStarted,       \* the components that have been started and not stopped
    appDb,            \* the database connection: "none", "open" or "closed"
    appFailed,        \* ghost: the step at which start() raised, or "none"
    \* ---- advertisement decoders on their own (ble/parsers)
    sample,           \* the raw words a sensor put into the frame it broadcasts
    decodePc,         \* "ready" before the frame is handed to the decoder, "done" after
    decoded,          \* what the decoder returned
    decoder,          \* the parser the frame was handed to
    \* ---- BleScanner (ble/scanner.py)
    discovered_macs,  \* BleScanner._discovered_macs
    lastCallback,     \* ghost: what the last _detection_callback did (probed: the decoders it called)
    scanner,          \* BleScanner._scanner : None or the open handle
    running,          \* BleScanner._running
    last_data_time,   \* BleScanner._last_data_time
    restart_count,    \* run_with_restart's local restart_count
    cycle_start,      \* run_with_restart's local cycle_start
    pc,               \* where the run_with_restart task is
    wakeAt,           \* deadline of the sleep the supervisor is suspended in
    failures,         \* ghost: consecutive failed cycles
    stopCalled,       \* ghost: BleScanner.stop() has run on a running scanner
    cancelled,        \* ghost: the supervisor task has been cancelled
    handlesOpened,    \* ghost: scan handles started so far
    lastExit,         \* ghost: why the last scan loop was left
    watchdogAt,       \* ghost: the times at which the watchdog ended a scan loop
    stopPc,           \* where a call of BleScanner.stop() is: "idle" or "waiting"
    stopWake,         \* when the wait of that call ends
    resetSeconds,     \* how long _reset_bluetooth_adapter takes on this host
    \* ---- RemotePoller (remote.py)
    data,             \* RemotePoller._data : site -> RemoteSiteData
    settings,         \* rows of the settings table (persisted site cache)
    session,          \* RemotePoller._session : "none", "open" or "closed"
    sitePc,           \* where each site's _poll_loop task is
    siteWake,         \* deadline of the request or sleep a site's task waits in
    saw404,           \* ghost: the site has answered 404 to POST /sync
    lastPoll          \* ghost: the response a polling task handled last

lockVars    == <<lock, addPc, pending, readPc, readCall, returned>>
storeVars   == <<latest, history, arrivals, histResult, lockVars>>
configVars  == <<sensors, devices, discovered_macs, lastCallback>>
scanVars    == <<scanner, running, last_data_time, restart_count, cycle_start,
                 pc, wakeAt, failures, stopCalled, cancelled, handlesOpened, lastExit, watchdogAt, stopPc, stopWake,
                 resetSeconds>>
remoteVars  == <<data, settings, session, sitePc, siteWake, saw404, lastPoll>>
weatherRest == <<weatherPc, weatherLeft, weatherTable, stopResult, lastTick>>
weatherVars == <<aggRunning, weatherRest>>
decodeVars  == <<sample, decodePc, decoded, decoder>>
driftVars   == <<tickAt, counted>>
appVars     == <<appPc, appStep, appConfig, appRunning, appStarted, appDb, appFailed>>
aggVars     == <<readingsTable, aggPc, aggLeft, clockSteps, lastAggregate, weatherVars,
                 decodeVars, driftVars, appVars>>
vars == <<now, storeVars, configVars, aggVars, scanVars, remoteVars>>

----------------------------------------------------------------------------
(* Optional values *)

None == <<>>
Some(v) == <<v>>
IsNone(o) == o = <<>>
IsSome(o) == o # <<>>
Get(o) == o[1]

(* dict assignment d[k] = v *)
Put(d, k, v) == [x \in (DOMAIN d) \cup {k} |-> IF x = k THEN v ELSE d[x]]

Min2(a, b) == IF a <= b THEN a ELSE b

----------------------------------------------------------------------------
(* Addresses.  str.upper() on the addresses the model uses. *)

Addresses == {"AA:BB:CC:00:00:01", "dd:ee:ff:00:00:02", "11:22:33:00:00:03"}

upper(s) ==
    CASE s = "dd:ee:ff:00:00:02" -> "DD:EE:FF:00:00:02"
      [] OTHER -> s

(* mac.replace(':', '')[-6:] *)
mac_tail(mac) ==
    CASE mac = "AA:BB:CC:00:00:01" -> "000001"
      [] mac = "DD:EE:FF:00:00:02" -> "000002"
      [] mac = "11:22:33:00:00:03" -> "000003"
      [] OTHER -> mac

----------------------------------------------------------------------------
(* Advertisement decoders (ble/parsers).  A payload is a sequence of bytes;  *)
(* the byte at Python offset i is data[i + 1].                               *)

RUUVI_MANUFACTURER_ID == 1177      \* 0x0499
ATC_SERVICE_UUID == "0000181a-0000-1000-8000-00805f9b34fb"

(* struct.unpack(">H" / ">h" / "<H" / "<h", data[i:i+2])[0] *)
(* the same two bytes read low byte first *)
unpack_u16_swapped(d, i) == d[i + 2] * 256 + d[i + 1]
unpack_u16_be(d, i) == d[i + 1] * 256 + d[i + 2]
unpack_s16_be(d, i) ==
    LET u == unpack_u16_be(d, i) IN IF u >= 32768 THEN u - 65536 ELSE u
unpack_u16_le(d, i) == d[i + 2] * 256 + d[i + 1]
unpack_s16_le(d, i) ==
    LET u == unpack_u16_le(d, i) IN IF u >= 32768 THEN u - 65536 ELSE u

(* models.SensorReading; __post_init__ upper-cases the mac *)
SensorReading(mac, ts, temp, hum, pres, bv, bp) ==
    [mac |-> upper(mac), timestamp |-> ts, temperature |-> temp, humidity |-> hum,
     pressure |-> pres, battery_voltage |-> bv, battery_percent |-> bp, rssi |-> None]

(* a can_parse that lets every record through *)
RuuviCanParse_unchecked(adv) == TRUE

RuuviCanParse(adv) ==
    /\ RUUVI_MANUFACTURER_ID \in DOMAIN adv.manufacturer_data
    /\ Len(adv.manufacturer_data[RUUVI_MANUFACTURER_ID]) >= 1
    /\ adv.manufacturer_data[RUUVI_MANUFACTURER_ID][1] \in {3, 5}

(* a decoder that adds the fraction whatever the sign of the integer part *)
parse_df3_fraction_added(mac, d, t) ==
    IF Len(d) < 14 THEN None
    ELSE Some(SensorReading(mac, t,
                            1000 * (IF d[3] > 127 THEN d[3] - 256 ELSE d[3]) + 10 * d[4],
                            Some(d[2] * 5000),
                            Some(unpack_u16_be(d, 4) + 50000),
                            Some(unpack_u16_be(d, 12)),
                            None))

parse_df3(mac, d, t) ==
    IF Len(d) < 14 THEN None
    ELSE LET temp_int == IF d[3] > 127 THEN d[3] - 256 ELSE d[3]
             temp_frac == d[4]
             temperature == IF temp_int >= 0 THEN 1000 * temp_int + 10 * temp_frac
                                             ELSE 1000 * temp_int - 10 * temp_frac
         IN Some(SensorReading(mac, t, temperature,
                               Some(d[2] * 5000),
                               Some(unpack_u16_be(d, 4) + 50000),
                               Some(unpack_u16_be(d, 12)),
                               None))

(* a decoder that scales the sentinels like any other raw value *)
parse_df5_scaling_sentinels(mac, d, t) ==
    IF Len(d) < 18 THEN None
    ELSE Some(SensorReading(mac, t, unpack_s16_be(d, 1) * 5,
                            Some(unpack_u16_be(d, 3) * 25),
                            Some(unpack_u16_be(d, 5) + 50000),
                            Some(unpack_u16_be(d, 13) \div 32 + 1600),
                            None))

parse_df5(mac, d, t) ==
    IF Len(d) < 18 THEN None
    ELSE LET temp_raw == unpack_s16_be(d, 1)
             humidity_raw == unpack_u16_be(d, 3)
             pressure_raw == unpack_u16_be(d, 5)
             voltage_raw == unpack_u16_be(d, 13) \div 32     \* power_raw >> 5
         IN IF temp_raw = -32768 THEN None
            ELSE Some(SensorReading(mac, t, temp_raw * 5,
                   IF humidity_raw = 65535 THEN None ELSE Some(humidity_raw * 25),
                   IF pressure_raw = 65535 THEN None ELSE Some(pressure_raw + 50000),
                   IF voltage_raw = 2047 THEN None ELSE Some(voltage_raw + 1600),
                   None))

RuuviParse(mac, adv, t) ==
    IF ~RuuviCanParse(adv) THEN None
    ELSE LET d == adv.manufacturer_data[RUUVI_MANUFACTURER_ID]
         IN IF d[1] = 3 THEN parse_df3(mac, d, t)
            ELSE IF d[1] = 5 THEN parse_df5(mac, d, t)
            ELSE None

XiaomiCanParse(adv) ==
    /\ ATC_SERVICE_UUID \in DOMAIN adv.service_data
    /\ Len(adv.service_data[ATC_SERVICE_UUID]) \in {13, 15, 16, 17}

parse_atc(mac, d, t) ==
    IF Len(d) < 13 THEN None
    ELSE Some(SensorReading(mac, t, unpack_s16_be(d, 6) * 100,
                            Some(d[9] * 10000), None,
                            Some(unpack_u16_be(d, 10)), Some(d[10])))

parse_pvvx(mac, d, t) ==
    IF Len(d) < 15 THEN None
    ELSE Some(SensorReading(mac, t, unpack_s16_le(d, 6) * 10,
                            Some(unpack_u16_le(d, 8) * 100), None,
                            Some(unpack_u16_le(d, 10)), Some(d[13])))

(* a decoder that reads every accepted payload with the ATC layout *)
XiaomiParse_atc_layout_always(mac, adv, t) ==
    IF ~XiaomiCanParse(adv) THEN None
    ELSE parse_atc(mac, adv.service_data[ATC_SERVICE_UUID], t)

XiaomiParse(mac, adv, t) ==
    IF ~XiaomiCanParse(adv) THEN None
    ELSE LET d == adv.service_data[ATC_SERVICE_UUID]
         IN IF Len(d) = 13 THEN parse_atc(mac, d, t)
            ELSE IF Len(d) >= 15 THEN parse_pvvx(mac, d, t)
            ELSE None

(* BleScanner._parsers, in probing order; can_parse / parse dispatch *)
Parsers == <<"ruuvi", "xiaomi">>
can_parse(kind, adv) == IF kind = "ruuvi" THEN RuuviCanParse(adv) ELSE XiaomiCanParse(adv)
parse(kind, mac, adv, t) ==
    IF kind = "ruuvi" THEN RuuviParse(mac, adv, t) ELSE XiaomiParse(mac, adv, t)

(* Frames the scan delivers.  Df5Frame lays out an 18-byte format-5 payload. *)
Df5Frame(temp, hum, pres, power) ==
    <<5, temp \div 256, temp % 256, hum \div 256, hum % 256, pres \div 256, pres % 256,
      0, 0, 0, 0, 0, 0, power \div 256, power % 256, 0, 0, 0>>

EmptyMap == [x \in {} |-> <<>>]
RuuviAdv(payload) ==
    [manufacturer_data |-> [x \in {RUUVI_MANUFACTURER_ID} |-> payload],
     service_data |-> EmptyMap, rssi |-> -60]
XiaomiAdv(payload) ==
    [manufacturer_data |-> EmptyMap,
     service_data |-> [x \in {ATC_SERVICE_UUID} |-> payload], rssi |-> -70]

AdvDf5Ok       == RuuviAdv(Df5Frame(200, 32768, 49788, 65476))
AdvDf5Sentinel == RuuviAdv(Df5Frame(32768, 32768, 49788, 65476))   \* temperature 0x8000
AdvDf5Short    == RuuviAdv(<<5, 0, 200, 128, 0>>)                  \* truncated frame
AdvDf3Ok       == RuuviAdv(<<3, 80, 21, 50, 195, 80, 0, 0, 0, 0, 0, 0, 11, 184>>)
AdvAtcOk       == XiaomiAdv(<<1, 2, 3, 4, 5, 6, 0, 215, 45, 90, 11, 184, 7>>)
AdvOther       == [manufacturer_data |-> [x \in {76} |-> <<2, 21>>],
                   service_data |-> EmptyMap, rssi |-> -80]

Adverts == {AdvDf5Ok, AdvDf5Sentinel, AdvDf5Short, AdvDf3Ok, AdvAtcOk, AdvOther}

----------------------------------------------------------------------------
(* SensorStore (ble/sensor_store.py) *)

HISTORY_DURATION == 86400          \* timedelta(hours=24), in seconds
(* Capacity of a sensor's deque.  Stands for MAX_READINGS_PER_SENSOR = 2000
   (sensor_store.py:18), scaled down so that overflow is reached. *)
MaxReadings == 3

(* a deque without maxlen *)
deque_append_unbounded(h, r) == Append(h, r)

(* deque(maxlen=MaxReadings).append(r): a full deque drops its left end *)
deque_append(h, r) ==
    IF Len(h) >= MaxReadings THEN Append(Tail(h), r) ELSE Append(h, r)

(* while history and history[0].timestamp < cutoff: history.popleft() *)
RECURSIVE _cleanup_old_readings(_, _)
_cleanup_old_readings(h, t) ==
    IF h # <<>> /\ h[1].timestamp < t - HISTORY_DURATION
    THEN _cleanup_old_readings(Tail(h), t)
    ELSE h


(* a history read that hands the readings back newest first *)
get_history_newest_first(hist, mac, hours, t) ==
    IF upper(mac) \notin DOMAIN hist THEN <<>>
    ELSE LET kept == SelectSeq(hist[upper(mac)], LAMBDA r : r.timestamp >= t - hours * 3600)
         IN [i \in 1..Len(kept) |-> kept[Len(kept) + 1 - i]]

(* add_reading at wall-clock time t; the whole body runs under the lock.
   Returns the new (_latest, _history). *)
add_reading(lat, hist, reading, t) ==
    LET mac == upper(reading.mac)
        h0 == IF mac \in DOMAIN hist THEN hist[mac] ELSE <<>>
    IN [latest  |-> Put(lat, mac, reading),
        history |-> Put(hist, mac, _cleanup_old_readings(deque_append(h0, reading), t))]

get_history(hist, mac, hours, t) ==
    IF upper(mac) \notin DOMAIN hist THEN <<>>
    ELSE SelectSeq(hist[upper(mac)], LAMBDA r : r.timestamp >= t - hours * 3600)

(* no get_history call has returned *)
NoResult == [mac |-> "", hours |-> 0, at |-> 0, result |-> <<>>]

(* self._latest.get(mac) *)
get_latest(lat, mac) == IF upper(mac) \in DOMAIN lat THEN Some(lat[upper(mac)]) ELSE None

(* a returned map that is the store's own dict: it shows what the store
   holds whenever it is looked at *)
live_reference(lat) == [live |-> TRUE, items |-> lat]

(* dict(self._latest): a new dict with the items the store holds now *)
get_all_latest(lat) == [live |-> FALSE, items |-> lat]

(* what a holder of a returned map finds in it *)
Contents(ref) == IF ref.live THEN latest ELSE ref.items

(* a lock that lets everyone in *)
LockAlwaysFree(l) == TRUE

(* threading.Lock: `with self._lock` goes on only when no thread holds it *)
LockIsFree(l) == l = "free"

NoCall == [op |-> "", mac |-> "", at |-> 0]
NoReturn == [op |-> "", mac |-> "", latest |-> None,
             all |-> get_all_latest([m \in {} |-> <<>>]), hist |-> <<>>]

StoreInit ==
    /\ latest = [m \in {} |-> <<>>]
    /\ history = [m \in {} |-> <<>>]
    /\ arrivals = [m \in {} |-> <<>>]
    /\ histResult = NoResult
    /\ lock = "free"
    /\ addPc = "idle"
    /\ pending = None
    /\ readPc = "idle"
    /\ readCall = NoCall
    /\ returned = NoReturn

(* The store's part of a step in which `reading` is handed to add_reading. *)
StoreAdd(reading) ==
    LET st == add_reading(latest, history, reading, now)
        mac == upper(reading.mac)
    IN /\ latest' = st.latest
       /\ history' = st.history
       /\ arrivals' = Put(arrivals, mac,
                          Append(IF mac \in DOMAIN arrivals THEN arrivals[mac] ELSE <<>>,
                                 reading))

----------------------------------------------------------------------------
(* AppConfig (models.py) and the devices table (db.py) *)

SensorConfig(mac, name, type) == [mac |-> upper(mac), name |-> name, type |-> type]

get_sensor_macs(ss) == {ss[i].mac : i \in DOMAIN ss}

(* a lookup that finds nothing *)
get_sensor_by_mac_none(ss, mac) == None

(* Optional[SensorConfig]: the first entry with that mac *)
get_sensor_by_mac(ss, mac) ==
    LET hits == {i \in DOMAIN ss : ss[i].mac = upper(mac)}
    IN IF hits = {} THEN None
       ELSE Some(ss[CHOOSE i \in hits : \A j \in hits : i <= j])

add_sensor(ss, mac, name, type) ==
    IF IsSome(get_sensor_by_mac(ss, mac)) THEN ss
    ELSE Append(ss, SensorConfig(mac, name, type))

MaxOrder(rows) ==
    IF rows = {} THEN 0
    ELSE CHOOSE n \in {r.display_order : r \in rows} :
            \A r \in rows : r.display_order <= n

(* sync_devices_from_config: insert the config's sensors that have no row yet,
   in list order, numbering them from MAX(display_order) + 1 *)
RECURSIVE SyncFrom(_, _, _, _)
SyncFrom(rows, existing_macs, ss, next_order) ==
    IF ss = <<>> THEN rows
    ELSE LET mac == upper(Head(ss).mac)
         IN IF mac \in existing_macs
            THEN SyncFrom(rows, existing_macs, Tail(ss), next_order)
            ELSE SyncFrom(rows \cup {[mac |-> mac, alias |-> None,
                                      display_order |-> next_order,
                                      sensor_type |-> Head(ss).type]},
                          existing_macs, Tail(ss), next_order + 1)

(* a sync that numbers new rows from MAX(display_order) itself *)
sync_devices_numbering_from_max(rows, ss) ==
    SyncFrom(rows, {r.mac : r \in rows}, ss, MaxOrder(rows))

sync_devices_from_config(rows, ss) ==
    SyncFrom(rows, {r.mac : r \in rows}, ss, MaxOrder(rows) + 1)

ConfiguredSensors == <<SensorConfig("AA:BB:CC:00:00:01", "sauna", "ruuvi")>>

ConfigInit ==
    /\ sensors = ConfiguredSensors
    /\ devices = sync_devices_from_config({}, ConfiguredSensors)   \* app.start
    /\ discovered_macs = {}
    /\ lastCallback = [mac |-> "", registered |-> FALSE, stored |-> FALSE,
                       probed |-> {}, raised |-> FALSE, adv |-> AdvOther]

----------------------------------------------------------------------------
(* BleScanner._detection_callback (ble/scanner.py:73-154) *)

(* f"{sensor_type.value}_{mac.replace(':', '')[-6:]}" *)
discovered_name(kind, mac) ==
    LET tail == mac_tail(mac)
    IN CASE kind = "ruuvi"  /\ tail = "000001" -> "ruuvi_000001"
         [] kind = "ruuvi"  /\ tail = "000002" -> "ruuvi_000002"
         [] kind = "ruuvi"  /\ tail = "000003" -> "ruuvi_000003"
         [] kind = "xiaomi" /\ tail = "000001" -> "xiaomi_000001"
         [] kind = "xiaomi" /\ tail = "000002" -> "xiaomi_000002"
         [] kind = "xiaomi" /\ tail = "000003" -> "xiaomi_000003"
         [] OTHER -> "unknown"

(* index of the first parser whose can_parse accepts adv; 0 when none does *)
FirstParser(adv) ==
    LET hits == {i \in DOMAIN Parsers : can_parse(Parsers[i], adv)}
    IN IF hits = {} THEN 0 ELSE CHOOSE i \in hits : \A j \in hits : i <= j

scanRest == <<scanner, running, restart_count, cycle_start, pc, wakeAt, failures,
              stopCalled, cancelled, handlesOpened, lastExit, watchdogAt, stopPc, stopWake, resetSeconds>>

(* if reading: reading.rssi = ...; store.add_reading(reading); _last_data_time = now *)
StoreIfDecoded(reading, adv) ==
    IF IsSome(reading)
    THEN /\ StoreAdd([Get(reading) EXCEPT !.rssi = Some(adv.rssi)])
         /\ last_data_time' = Some(now)
         /\ UNCHANGED <<histResult, lockVars>>
    ELSE UNCHANGED <<storeVars, last_data_time>>

(* One advertisement from `address`.  dbRaises: the devices-table sync of a
   newly discovered sensor raises (caught by the callback's except). *)
_detection_callback(address, adv, dbRaises) ==
    LET mac == upper(address)
        sensor_config == get_sensor_by_mac(sensors, mac)
        first == FirstParser(adv)
    IN /\ UNCHANGED <<now, aggVars, scanRest, remoteVars>>
       /\ IF IsSome(sensor_config)
          THEN \* fast path: the configured type's parser only
               LET reading == parse(Get(sensor_config).type, address, adv, now)
               IN /\ StoreIfDecoded(reading, adv)
                  /\ UNCHANGED <<sensors, devices, discovered_macs>>
                  /\ lastCallback' = [mac |-> mac, registered |-> FALSE,
                                      stored |-> IsSome(reading),
                                      probed |-> {Get(sensor_config).type},
                                      raised |-> FALSE, adv |-> adv]
          ELSE IF mac \in discovered_macs
          THEN /\ UNCHANGED <<storeVars, last_data_time, sensors, devices, discovered_macs>>
               /\ lastCallback' = [mac |-> mac, registered |-> FALSE, stored |-> FALSE,
                                   probed |-> {}, raised |-> FALSE, adv |-> adv]
          ELSE IF first = 0
          THEN /\ UNCHANGED <<storeVars, last_data_time, sensors, devices, discovered_macs>>
               /\ lastCallback' = [mac |-> mac, registered |-> FALSE, stored |-> FALSE,
                                   probed |-> {Parsers[i] : i \in DOMAIN Parsers},
                                   raised |-> FALSE, adv |-> adv]
          ELSE LET kind == Parsers[first]
                   reading == parse(kind, address, adv, now)
               IN /\ discovered_macs' = discovered_macs \cup {mac}
                  /\ sensors' = add_sensor(sensors, mac, discovered_name(kind, mac), kind)
                  /\ IF dbRaises
                     THEN /\ UNCHANGED <<devices, storeVars, last_data_time>>
                          /\ lastCallback' = [mac |-> mac, registered |-> TRUE,
                                              stored |-> FALSE,
                                              probed |-> {Parsers[i] : i \in 1..first},
                                              raised |-> TRUE, adv |-> adv]
                     ELSE /\ devices' = sync_devices_from_config(devices, sensors')
                          /\ StoreIfDecoded(reading, adv)
                          /\ lastCallback' = [mac |-> mac, registered |-> TRUE,
                                              stored |-> IsSome(reading),
                                              probed |-> {Parsers[i] : i \in 1..first},
                                              raised |-> FALSE, adv |-> adv]

----------------------------------------------------------------------------
(* BleScanner supervisor (ble/scanner.py:156-345), Linux constants           *)

RESTART_INTERVAL_SECONDS == 60
WATCHDOG_TIMEOUT_SECONDS == 45
STOP_TIMEOUT_SECONDS == 10
check_interval == 10
RESTART_PAUSE == 1                 \* asyncio.sleep(1) before a restart
ERROR_BACKOFF == 3                 \* asyncio.sleep(3) after an error
(* _reset_bluetooth_adapter: sleep(1) + sleep(2) when bluetoothctl runs
   (lines 199, 208), no wait when neither tool can be run on the host *)
ResetDurations == {0, 1 + 2}

ScanTickStep == check_interval        \* granularity of the scanner's clock
ScanHorizon == 11                  \* ticks of ScanTickStep a run may last
MaxCycles == 3                     \* scan cycles a run may start
ScanMaxAdds == 1                   \* readings one run of the scanner stores

(* a watchdog that never fires *)
_should_restart_never(ldt, t) == FALSE

(* _should_restart at time t: only the watchdog *)
_should_restart(ldt, t) ==
    IsSome(ldt) /\ (t - Get(ldt)) > WATCHDOG_TIMEOUT_SECONDS

ScanInit ==
    /\ scanner = None
    /\ running = FALSE
    /\ last_data_time = None
    /\ restart_count = 0
    /\ cycle_start = 0
    /\ pc = "loop_top"
    /\ wakeAt = 0
    /\ failures = 0
    /\ stopCalled = FALSE
    /\ cancelled = FALSE
    /\ handlesOpened = 0
    /\ lastExit = "none"
    /\ watchdogAt = <<>>
    /\ stopPc = "idle"
    /\ stopWake = 0
    /\ resetSeconds \in ResetDurations

scanFrame == <<storeVars, configVars, aggVars, remoteVars, resetSeconds>>

(* States in which the supervisor task is suspended in an await *)
SleepStates == {"reset_pre", "scan_sleep", "stopping", "pause",
                "err_stop", "err_reset", "backoff", "cancel_stop"}
AwaitStates == SleepStates \cup {"starting"}
(* awaits inside run_with_restart's try block *)
TryStates == {"reset_pre", "starting", "scan_sleep", "stopping", "pause"}

(* Time passes while the supervisor is suspended, never past its deadline. *)
ScanTick ==
    /\ pc \in SleepStates \/ (stopPc = "waiting" /\ pc \in {"stopped", "cancelled"})
    /\ pc \in SleepStates => now < wakeAt
    /\ stopPc = "waiting" => now < stopWake
    /\ now < ScanHorizon * ScanTickStep
    /\ now' = Min2(IF pc \in SleepStates THEN wakeAt ELSE stopWake,
                   Min2(IF stopPc = "waiting" THEN stopWake ELSE now + ScanTickStep,
                        now + ScanTickStep))
    /\ UNCHANGED <<scanVars, scanFrame>>

(* A hung stop that nothing bounds *)
StopDeadlinesUnbounded == {now, 2 * STOP_TIMEOUT_SECONDS + now}

(* _stop_scanner_safe is entered.  With no handle held it returns at once;
   otherwise the handle's stop() returns or raises promptly, or hangs until
   wait_for gives up after STOP_TIMEOUT_SECONDS. *)
StopDeadlines ==
    IF scanner = None THEN {now} ELSE {now, now + STOP_TIMEOUT_SECONDS}

(* top of `while True`: restart_count += 1; reset the adapter from the
   second cycle on; otherwise create the scanner straight away *)
LoopTop ==
    /\ pc = "loop_top"
    /\ restart_count < MaxCycles
    /\ restart_count' = restart_count + 1
    /\ IF restart_count' > 1
       THEN /\ wakeAt' = now + resetSeconds
            /\ pc' = "reset_pre"
            /\ UNCHANGED scanner
       ELSE /\ pc' = "starting"
            /\ scanner' = Some(handlesOpened + 1)
            /\ UNCHANGED wakeAt
    /\ UNCHANGED <<now, running, last_data_time, cycle_start, failures, stopCalled,
                   cancelled, handlesOpened, lastExit, watchdogAt, stopPc, stopWake, scanFrame>>

(* _reset_bluetooth_adapter returned; self._scanner = await _create_scanner() *)
ResetDone ==
    /\ pc = "reset_pre"
    /\ now >= wakeAt
    /\ pc' = "starting"
    /\ scanner' = Some(handlesOpened + 1)
    /\ UNCHANGED <<now, running, last_data_time, restart_count, cycle_start, wakeAt,
                   failures, stopCalled, cancelled, handlesOpened, lastExit, watchdogAt, stopPc, stopWake, scanFrame>>

(* a start that leaves the watchdog clock where it was *)
StartOkKeepsClock ==
    /\ pc = "starting"
    /\ running' = TRUE
    /\ cycle_start' = now
    /\ handlesOpened' = handlesOpened + 1
    /\ failures' = 0
    /\ pc' = "scan_sleep"
    /\ wakeAt' = now + check_interval
    /\ UNCHANGED <<now, scanner, last_data_time, restart_count, stopCalled, cancelled,
                   lastExit, watchdogAt, stopPc, stopWake, scanFrame>>

(* await self._scanner.start() returned; lines 296-306 *)
StartOk ==
    /\ pc = "starting"
    /\ last_data_time' = Some(now)
    /\ running' = TRUE
    /\ cycle_start' = now
    /\ handlesOpened' = handlesOpened + 1
    /\ failures' = 0
    /\ pc' = "scan_sleep"
    /\ wakeAt' = now + check_interval
    /\ UNCHANGED <<now, scanner, restart_count, stopCalled, cancelled, lastExit, watchdogAt, stopPc, stopWake, scanFrame>>

(* creating or starting the handle raised: except Exception, line 339 *)
StartRaises ==
    /\ pc = "starting"
    /\ failures' = failures + 1
    /\ pc' = "err_stop"
    /\ wakeAt' \in StopDeadlines
    /\ UNCHANGED <<now, scanner, running, last_data_time, restart_count, cycle_start,
                   stopCalled, cancelled, handlesOpened, lastExit, watchdogAt, stopPc, stopWake, scanFrame>>

(* a check that knows the watchdog and the running flag only *)
CheckOutcomeNoTimer(t) ==
    IF _should_restart(last_data_time, t) THEN "watchdog"
    ELSE IF ~running THEN "stop"
    ELSE "continue"

(* why the scan loop is left at a check, or "continue"; lines 305-321 *)
CheckOutcome(t) ==
    IF t - cycle_start >= RESTART_INTERVAL_SECONDS THEN "proactive"
    ELSE IF _should_restart(last_data_time, t) THEN "watchdog"
    ELSE IF ~running THEN "stop"
    ELSE "continue"

(* the check sleep ended *)
Check ==
    /\ pc = "scan_sleep"
    /\ now >= wakeAt
    /\ LET o == CheckOutcome(now)
       IN IF o = "continue"
          THEN /\ wakeAt' = now + check_interval
               /\ UNCHANGED <<pc, lastExit, watchdogAt>>
          ELSE /\ pc' = "stopping"
               /\ wakeAt' \in StopDeadlines
               /\ lastExit' = o
               /\ watchdogAt' = IF o = "watchdog" THEN Append(watchdogAt, now) ELSE watchdogAt
    /\ UNCHANGED <<now, scanner, running, last_data_time, restart_count, cycle_start,
                   failures, stopCalled, cancelled, handlesOpened, stopPc, stopWake,
                   scanFrame>>

(* _stop_scanner_safe ends: the handle's stop returned or raised, or the
   timeout expired; the reference is dropped in each case *)
HandleStopEnds == now >= wakeAt

(* a stop that goes on to the pause with the handle still referenced *)
StopHandleDone_keeps_handle ==
    /\ pc = "stopping"
    /\ HandleStopEnds
    /\ IF ~running
       THEN pc' = "stopped" /\ scanner' = None /\ UNCHANGED wakeAt
       ELSE pc' = "pause" /\ wakeAt' = now + RESTART_PAUSE /\ UNCHANGED scanner
    /\ UNCHANGED <<now, running, last_data_time, restart_count, cycle_start,
                   failures, stopCalled, cancelled, handlesOpened, lastExit, watchdogAt, stopPc, stopWake, scanFrame>>

(* line 324-332: after the stop, return when shutting down, else pause *)
StopHandleDone ==
    /\ pc = "stopping"
    /\ HandleStopEnds
    /\ scanner' = None
    /\ IF ~running
       THEN pc' = "stopped" /\ UNCHANGED wakeAt
       ELSE pc' = "pause" /\ wakeAt' = now + RESTART_PAUSE
    /\ UNCHANGED <<now, running, last_data_time, restart_count, cycle_start,
                   failures, stopCalled, cancelled, handlesOpened, lastExit, watchdogAt, stopPc, stopWake, scanFrame>>

PauseDone ==
    /\ pc = "pause"
    /\ now >= wakeAt
    /\ pc' = "loop_top"
    /\ UNCHANGED <<now, scanner, running, last_data_time, restart_count, cycle_start,
                   wakeAt, failures, stopCalled, cancelled, handlesOpened, lastExit, watchdogAt, stopPc, stopWake,
                   scanFrame>>

(* except Exception: stop the handle, reset the adapter, sleep(3) *)
ErrStopDone ==
    /\ pc = "err_stop"
    /\ HandleStopEnds
    /\ scanner' = None
    /\ pc' = "err_reset"
    /\ wakeAt' = now + resetSeconds
    /\ UNCHANGED <<now, running, last_data_time, restart_count, cycle_start,
                   failures, stopCalled, cancelled, handlesOpened, lastExit, watchdogAt, stopPc, stopWake, scanFrame>>

ErrResetDone ==
    /\ pc = "err_reset"
    /\ now >= wakeAt
    /\ pc' = "backoff"
    /\ wakeAt' = now + ERROR_BACKOFF
    /\ UNCHANGED <<now, scanner, running, last_data_time, restart_count, cycle_start,
                   failures, stopCalled, cancelled, handlesOpened, lastExit, watchdogAt, stopPc, stopWake, scanFrame>>

(* a supervisor that gives up after the backoff instead of retrying *)
BackoffGivesUp ==
    /\ pc = "backoff"
    /\ now >= wakeAt
    /\ pc' = "stopped"
    /\ UNCHANGED <<now, scanner, running, last_data_time, restart_count, cycle_start,
                   wakeAt, failures, stopCalled, cancelled, handlesOpened, lastExit, watchdogAt, stopPc, stopWake,
                   scanFrame>>

BackoffDone ==
    /\ pc = "backoff"
    /\ now >= wakeAt
    /\ pc' = "loop_top"
    /\ UNCHANGED <<now, scanner, running, last_data_time, restart_count, cycle_start,
                   wakeAt, failures, stopCalled, cancelled, handlesOpened, lastExit, watchdogAt, stopPc, stopWake,
                   scanFrame>>


(* a cancellation that an await of the exception handler swallows *)
CancelLostInHandler ==
    /\ pc \in AwaitStates \ {"cancel_stop"}
    /\ ~cancelled
    /\ cancelled' = TRUE
    /\ IF pc \in TryStates \ {"stopping"}
       THEN /\ pc' = "cancel_stop"
            /\ wakeAt' \in StopDeadlines
            /\ UNCHANGED scanner
       ELSE /\ pc' = IF pc = "stopping" THEN "cancelled" ELSE pc
            /\ scanner' = IF pc = "stopping" THEN None ELSE scanner
            /\ UNCHANGED wakeAt
    /\ UNCHANGED <<now, running, last_data_time, restart_count, cycle_start,
                   failures, stopCalled, handlesOpened, lastExit, watchdogAt, stopPc, stopWake,
                   scanFrame>>

(* The task running run_with_restart is cancelled while suspended.  Inside
   the try block the CancelledError handler stops the handle and returns
   (lines 334-337); inside the Exception handler it propagates, after the
   finally of _stop_scanner_safe has dropped the reference. *)
Cancel ==
    /\ pc \in AwaitStates \ {"cancel_stop"}
    /\ ~cancelled
    /\ cancelled' = TRUE
    /\ IF pc \in TryStates \ {"stopping"}
       THEN /\ pc' = "cancel_stop"
            /\ wakeAt' \in StopDeadlines
            /\ UNCHANGED scanner
       ELSE /\ pc' = "cancelled"
            /\ scanner' = IF pc \in {"stopping", "err_stop"} THEN None ELSE scanner
            /\ UNCHANGED wakeAt
    /\ UNCHANGED <<now, running, last_data_time, restart_count, cycle_start,
                   failures, stopCalled, handlesOpened, lastExit, watchdogAt, stopPc, stopWake, scanFrame>>

CancelStopDone ==
    /\ pc = "cancel_stop"
    /\ HandleStopEnds
    /\ scanner' = None
    /\ pc' = "cancelled"
    /\ UNCHANGED <<now, running, last_data_time, restart_count, cycle_start, wakeAt,
                   failures, stopCalled, cancelled, handlesOpened, lastExit, watchdogAt, stopPc, stopWake, scanFrame>>

(* What BleScanner.stop() leaves in _running (line 254) *)
StopSetsRunning == FALSE

(* BleScanner.stop() (lines 248-256), called from another task while the
   supervisor is suspended or has ended.  A call with _running false returns
   at once and is no step.  The call clears _running and enters
   _stop_scanner_safe, which returns at once when no handle is held. *)
Stop ==
    /\ pc \in AwaitStates \cup {"stopped", "cancelled"}
    /\ running
    /\ stopPc = "idle"
    /\ running' = StopSetsRunning
    /\ stopCalled' = (stopCalled \/ pc \in AwaitStates)
    /\ IF scanner = None
       THEN UNCHANGED <<stopPc, stopWake>>
       ELSE /\ stopPc' = "waiting"
            /\ stopWake' \in StopDeadlines
    /\ UNCHANGED <<now, scanner, last_data_time, restart_count, cycle_start, pc, wakeAt,
                   failures, cancelled, handlesOpened, lastExit, watchdogAt, scanFrame>>

(* the _stop_scanner_safe of stop() ends (lines 167-177): self._scanner is
   cleared whatever it holds by then, and stop() returns *)
StopWaitDone ==
    /\ stopPc = "waiting"
    /\ now >= stopWake
    /\ scanner' = None
    /\ stopPc' = "idle"
    /\ stopWake' = 0
    /\ UNCHANGED <<now, running, last_data_time, restart_count, cycle_start, pc, wakeAt,
                   failures, stopCalled, cancelled, handlesOpened, lastExit, watchdogAt,
                   scanFrame>>

TotalAdds ==
    LET RECURSIVE Sum(_)
        Sum(S) == IF S = {} THEN 0
                  ELSE LET m == CHOOSE x \in S : TRUE
                       IN Len(arrivals[m]) + Sum(S \ {m})
    IN Sum(DOMAIN arrivals)

ScanAddresses == {"AA:BB:CC:00:00:01"}
ScanAdverts == {AdvDf5Ok, AdvDf5Sentinel}

(* The open handle delivers an advertisement to _detection_callback. *)
ScanAdvert ==
    /\ pc = "scan_sleep"
    /\ scanner # None
    /\ TotalAdds < ScanMaxAdds
    /\ \E a \in ScanAddresses, adv \in ScanAdverts : _detection_callback(a, adv, FALSE)

----------------------------------------------------------------------------
(* RemotePoller (remote.py) *)

HTTP_TIMEOUT == 15                 \* aiohttp.ClientTimeout(total=15)
poll_interval == 30                \* RemoteSiteConfig.poll_interval

RemoteSites == {"cabin"}           \* polled read-only with GET /status
Peers == {"lake"}                  \* synced with POST /sync
Sites == RemoteSites \cup Peers

(* RemoteSiteData(site_name=name) with the dataclass defaults *)
RemoteSiteData(name) ==
    [site_name |-> name, sensors |-> <<>>, weather |-> None, last_fetch |-> None,
     last_error |-> None, online |-> FALSE]

(* Status payloads as they arrive: json = the body is a JSON object; an
   absent key is None. *)
BodyA ==
    [json |-> TRUE, site_name |-> Some("lake"),
     sensors |-> <<[name |-> Some("sauna"), mac |-> Some("AA:BB:CC:00:00:01"),
                    temperature |-> Some(21500)]>>,
     weather |-> Some([temperature |-> Some(5000)])]
BodyB ==
    [json |-> TRUE, site_name |-> None,
     sensors |-> <<[name |-> None, mac |-> None, temperature |-> None]>>,
     weather |-> None]
BodyBadWeather ==
    [json |-> TRUE, site_name |-> Some("lake"), sensors |-> <<>>,
     weather |-> Some([temperature |-> None])]
BodyNotJson ==
    [json |-> FALSE, site_name |-> None, sensors |-> <<>>, weather |-> None]

(* What a request ends with: an HTTP response, or an exception with its text *)
HttpResp(status, body) == [kind |-> "http", status |-> status, body |-> body, text |-> ""]
Responses ==
    {HttpResp(200, BodyA), HttpResp(200, BodyB), HttpResp(200, BodyBadWeather),
     HttpResp(200, BodyNotJson), HttpResp(404, BodyNotJson), HttpResp(500, BodyNotJson),
     [kind |-> "error", status |-> 0, body |-> BodyNotJson, text |-> "Cannot connect to host"],
     [kind |-> "timeout", status |-> 0, body |-> BodyNotJson, text |-> ""]}
NoResponse == [kind |-> "none", status |-> 0, body |-> BodyNotJson, text |-> ""]

(* f"HTTP {resp.status}" *)
HttpErrorText(status) ==
    CASE status = 404 -> "HTTP 404"
      [] status = 500 -> "HTTP 500"
      [] OTHER -> "HTTP"

(* s.get("name", "?"), s.get("mac", ""), s.get("temperature") *)
RemoteSensor(e) ==
    [name |-> IF IsSome(e.name) THEN Get(e.name) ELSE "?",
     mac |-> IF IsSome(e.mac) THEN Get(e.mac) ELSE "",
     temperature |-> e.temperature]

(* _parse_site_data raises: w["temperature"] on a weather object without it *)
ParseRaises(body) == IsSome(body.weather) /\ IsNone(Get(body.weather).temperature)

_parse_site_data(body, site_name, t) ==
    [site_name |-> IF IsSome(body.site_name) /\ Get(body.site_name) # ""
                   THEN Get(body.site_name) ELSE site_name,
     sensors |-> [i \in DOMAIN body.sensors |-> RemoteSensor(body.sensors[i])],
     weather |-> IF IsSome(body.weather)
                 THEN Some([temperature |-> Get(Get(body.weather).temperature)])
                 ELSE None,
     last_fetch |-> Some(t),
     last_error |-> None,
     online |-> TRUE]

(* datetime.isoformat(): the date and the time of day, written apart *)
isoformat(t) == [date |-> t \div 86400, time |-> t % 86400]

(* a reading of the text that keeps the date only *)
fromisoformat_date_only(x) == x.date * 86400

(* datetime.fromisoformat() *)
fromisoformat(x) == x.date * 86400 + x.time

(* dataclasses.asdict(): one key per field *)
asdict(o) == [k \in DOMAIN o |-> o[k]]

(* the blob _save_cache_to_db writes under remote_cache_<site>, lines 188-193 *)
CacheBlob(sd) ==
    [site_name |-> sd.site_name,
     sensors |-> [i \in DOMAIN sd.sensors |-> asdict(sd.sensors[i])],
     weather |-> IF IsSome(sd.weather) THEN Some(asdict(Get(sd.weather))) ELSE None,
     last_fetch |-> IF IsSome(sd.last_fetch) THEN Some(isoformat(Get(sd.last_fetch)))
                    ELSE None]

(* a load that shows the cached entry as online *)
_load_cache_from_db_online(st, d, site_name) ==
    IF site_name \notin DOMAIN st THEN d
    ELSE LET cached == st[site_name]
         IN Put(d, site_name,
                [site_name |-> cached.site_name,
                 sensors |-> [i \in DOMAIN cached.sensors |->
                                [k \in DOMAIN cached.sensors[i] |-> cached.sensors[i][k]]],
                 weather |-> IF IsSome(cached.weather)
                             THEN Some([k \in DOMAIN Get(cached.weather) |->
                                          Get(cached.weather)[k]])
                             ELSE None,
                 last_fetch |-> IF IsSome(cached.last_fetch)
                                THEN Some(fromisoformat(Get(cached.last_fetch)))
                                ELSE None,
                 last_error |-> None,
                 online |-> TRUE])

(* _load_cache_from_db, lines 152-179: nothing stored leaves the entry as it
   is; otherwise the entry is rebuilt from the blob, offline *)
_load_cache_from_db(st, d, site_name) ==
    IF site_name \notin DOMAIN st THEN d
    ELSE LET cached == st[site_name]
         IN Put(d, site_name,
                [site_name |-> cached.site_name,
                 sensors |-> [i \in DOMAIN cached.sensors |->
                                [k \in DOMAIN cached.sensors[i] |-> cached.sensors[i][k]]],
                 weather |-> IF IsSome(cached.weather)
                             THEN Some([k \in DOMAIN Get(cached.weather) |->
                                          Get(cached.weather)[k]])
                             ELSE None,
                 last_fetch |-> IF IsSome(cached.last_fetch)
                                THEN Some(fromisoformat(Get(cached.last_fetch)))
                                ELSE None,
                 last_error |-> None,
                 online |-> FALSE])

(* RemotePoller.__init__, lines 126-132: a default entry per configured
   site, then the cache of each *)
RECURSIVE LoadAll(_, _, _)
LoadAll(st, d, todo) ==
    IF todo = {} THEN d
    ELSE LET s == CHOOSE x \in todo : TRUE
         IN LoadAll(st, _load_cache_from_db(st, d, s), todo \ {s})

(* _save_cache_to_db; a failing write is logged and leaves the table as it was *)
_save_cache_to_db(st, d, site_name, dbOk) ==
    IF dbOk /\ site_name \in DOMAIN d THEN Put(st, site_name, CacheBlob(d[site_name])) ELSE st

(* an entry reset to its defaults and marked offline *)
mark_offline_clearing(d, s, text) ==
    [d EXCEPT ![s] = [RemoteSiteData(s) EXCEPT !.last_error = Some(text)]]

(* a failure that marks every entry offline *)
mark_offline_all(d, s, text) ==
    [k \in DOMAIN d |-> [d[k] EXCEPT !.online = FALSE, !.last_error = Some(text)]]

(* self._data[site.name].online = False; .last_error = text *)
mark_offline(d, s, text) ==
    [d EXCEPT ![s].online = FALSE, ![s].last_error = Some(text)]

(* a store that carries the old entry's last_error over into the new one *)
store_site_keeping_error(d, st, name, body, dbOk, t) ==
    LET old == IF name \in DOMAIN d THEN d[name].last_error ELSE None
        d2 == Put(d, name, [_parse_site_data(body, name, t) EXCEPT !.last_error = old])
    IN [data |-> d2, settings |-> _save_cache_to_db(st, d2, name, dbOk)]

(* self._data[name] = _parse_site_data(...); self._save_cache_to_db(name) *)
store_site(d, st, name, body, dbOk, t) ==
    LET d2 == Put(d, name, _parse_site_data(body, name, t))
    IN [data |-> d2, settings |-> _save_cache_to_db(st, d2, name, dbOk)]

(* _fetch_site once GET /status has ended with resp (lines 257-278):
   the new (_data, settings) *)
_fetch_site(d, st, s, resp, dbOk, t) ==
    IF resp.kind # "http" THEN [data |-> mark_offline(d, s, resp.text), settings |-> st]
    ELSE IF resp.status # 200
    THEN [data |-> mark_offline(d, s, HttpErrorText(resp.status)), settings |-> st]
    ELSE IF ~resp.body.json
    THEN [data |-> mark_offline(d, s, "Expecting value"), settings |-> st]
    ELSE IF ParseRaises(resp.body)
    THEN [data |-> mark_offline(d, s, "'temperature'"), settings |-> st]
    ELSE store_site(d, st, s, resp.body, dbOk, t)

(* _sync_peer once POST /sync has ended with resp, other than with a 404
   (lines 289-316): the new (_data, settings) *)
_sync_peer(d, st, s, resp, dbOk, t) ==
    IF resp.kind # "http" THEN [data |-> mark_offline(d, s, resp.text), settings |-> st]
    ELSE IF resp.status # 200
    THEN [data |-> mark_offline(d, s, HttpErrorText(resp.status)), settings |-> st]
    ELSE IF ~resp.body.json
    THEN [data |-> mark_offline(d, s, "Expecting value"), settings |-> st]
    ELSE IF ParseRaises(resp.body)
    THEN [data |-> mark_offline(d, s, "'temperature'"), settings |-> st]
    ELSE store_site(d, st, s, resp.body, dbOk, t)

(* receive_peer_data(site_name, data), lines 138-150 *)
receive_peer_data(d, st, site_name, body, dbOk, t) ==
    IF ParseRaises(body) THEN [data |-> d, settings |-> st]
    ELSE store_site(d, st, site_name, body, dbOk, t)

RemoteInit ==
    /\ settings = [s \in {} |-> <<>>]
    /\ data = LoadAll(settings, [s \in Sites |-> RemoteSiteData(s)], Sites)
    /\ session = "none"
    /\ sitePc = [s \in Sites |-> "new"]
    /\ siteWake = [s \in Sites |-> 0]
    /\ saw404 = [s \in Sites |-> FALSE]
    /\ lastPoll = [site |-> "", resp |-> NoResponse]

----------------------------------------------------------------------------
(* Aggregator (aggregator.py) and the readings table (db.py) *)

AGGREGATION_INTERVAL == 300
WEATHER_FETCH_INTERVAL == 600

(* now.replace(minute=(now.minute // 5) * 5, second=0, microsecond=0) *)
BucketStart(t) == t - (t % 300)

RECURSIVE SeqSum(_)
SeqSum(q) == IF q = <<>> THEN 0 ELSE Head(q) + SeqSum(Tail(q))
SeqMin(q) == CHOOSE x \in {q[i] : i \in DOMAIN q} : \A j \in DOMAIN q : x <= q[j]
SeqMax(q) == CHOOSE x \in {q[i] : i \in DOMAIN q} : \A j \in DOMAIN q : x >= q[j]
(* [r.f for r in recent if r.f is not None] *)
Present(recent, f) ==
    LET some == SelectSeq(recent, LAMBDA r : IsSome(r[f]))
    IN [i \in DOMAIN some |-> Get(some[i][f])]
(* sum(xs) / len(xs), rounded down to the model's unit; None for no values *)
OptAvg(xs) == IF xs = <<>> THEN None ELSE Some(SeqSum(xs) \div Len(xs))

(* the readings of the last AGGREGATION_INTERVAL seconds, lines 107-111 *)
Recent(hist, mac, t) ==
    SelectSeq(get_history(hist, mac, 1, t),
              LAMBDA r : r.timestamp >= t - AGGREGATION_INTERVAL)

(* the row _aggregate passes to save_aggregated_reading, lines 116-149;
   strftime("%Y-%m-%d %H:%M:%S") keeps the bucket start, which has whole
   seconds *)
AggregateRow(mac, recent, t) ==
    LET temps == [i \in DOMAIN recent |-> recent[i].temperature]
    IN [mac |-> upper(mac), timestamp |-> BucketStart(t),
        temp_avg |-> SeqSum(temps) \div Len(temps),
        temp_min |-> SeqMin(temps), temp_max |-> SeqMax(temps),
        humidity_avg |-> OptAvg(Present(recent, "humidity")),
        pressure_avg |-> OptAvg(Present(recent, "pressure")),
        battery_voltage |-> recent[Len(recent)].battery_voltage,
        battery_percent |-> recent[Len(recent)].battery_percent,
        sample_count |-> Len(recent)]

SameKey(a, b) == a.mac = b.mac /\ a.timestamp = b.timestamp

(* INSERT without OR REPLACE on a table without the UNIQUE constraint *)
insert_plain(rows, row, ok) == IF ok THEN Append(rows, row) ELSE rows

(* Database.save_aggregated_reading: INSERT OR REPLACE under
   UNIQUE(mac, timestamp); a failing write is logged and changes nothing *)
save_aggregated_reading(rows, row, ok) ==
    IF ok
    THEN Append(SelectSeq(rows, LAMBDA r : ~SameKey(r, row)), row)
    ELSE rows

(* the for loop of _aggregate over config.sensors[i..], at wall-clock time
   t; failing = the sensors whose write fails *)
RECURSIVE AggregateFrom(_, _, _, _, _, _)
AggregateFrom(i, ss, hist, rows, t, failing) ==
    IF i > Len(ss) THEN rows
    ELSE LET mac == ss[i].mac
             recent == Recent(hist, mac, t)
         IN IF recent = <<>>
            THEN AggregateFrom(i + 1, ss, hist, rows, t, failing)
            ELSE AggregateFrom(i + 1, ss, hist,
                               save_aggregated_reading(rows, AggregateRow(mac, recent, t),
                                                       mac \notin failing),
                               t, failing)

_aggregate(ss, hist, rows, t, failing) == AggregateFrom(1, ss, hist, rows, t, failing)

NoAggregate == [bucket |-> -1, written |-> {}, replaced |-> {}]

AggInit ==
    /\ readingsTable = <<>>
    /\ aggPc = "new"
    /\ aggLeft = 0
    /\ clockSteps = 0
    /\ lastAggregate = NoAggregate
    /\ aggRunning = FALSE
    /\ weatherPc = "none"
    /\ weatherLeft = 0
    /\ weatherTable = <<>>
    /\ stopResult = [calls |-> 0, raised |-> FALSE]
    /\ lastTick = [task |-> "none", raised |-> FALSE]
    /\ tickAt = None
    /\ counted = {}

NoSample == [kind |-> "none", temp |-> 0, hum |-> 0, pres |-> 0, power |-> 0]

(* what load_config can return: whether a weather location, an API port and
   remote sites or peers are configured *)
AppConfigs == [weather : BOOLEAN, api : BOOLEAN, remote : BOOLEAN]
NoAppConfig == [weather |-> FALSE, api |-> FALSE, remote |-> FALSE]

(* HutWatchApp.__init__ *)
AppInit ==
    /\ appPc = "new"
    /\ appStep = 1
    /\ appConfig = NoAppConfig
    /\ appRunning = FALSE
    /\ appStarted = {}
    /\ appDb = "none"
    /\ appFailed = "none"

(* everything but the decoders' own variables *)
ProgramInit ==
    /\ now = 0
    /\ AppInit
    /\ StoreInit
    /\ ConfigInit
    /\ AggInit
    /\ ScanInit
    /\ RemoteInit

Init ==
    /\ ProgramInit
    /\ sample = NoSample
    /\ decodePc = "ready"
    /\ decoded = None
    /\ decoder = "none"

NextScanner ==
    \/ ScanTick
    \/ StopWaitDone
    \/ LoopTop
    \/ ResetDone
    \/ StartOk
    \/ StartRaises
    \/ Check
    \/ StopHandleDone
    \/ PauseDone
    \/ ErrStopDone
    \/ ErrResetDone
    \/ BackoffDone
    \/ Cancel
    \/ CancelStopDone
    \/ Stop
    \/ ScanAdvert

SpecScanner == Init /\ [][NextScanner]_vars

----------------------------------------------------------------------------
(* Advertisement routing on its own: a handle is opened and advertisements
   from configured and unknown addresses are delivered to the callback. *)

DetectMaxAdds == 2                 \* readings one run of the callback stores

DetectAdvert ==
    /\ pc = "scan_sleep"
    /\ scanner # None
    /\ TotalAdds < DetectMaxAdds
    /\ \E a \in Addresses, adv \in Adverts, dbRaises \in BOOLEAN :
          _detection_callback(a, adv, dbRaises)

NextDetect ==
    \/ LoopTop
    \/ StartOk
    \/ DetectAdvert

SpecDetect == Init /\ [][NextDetect]_vars

----------------------------------------------------------------------------
(* The poller on its own: one read-only site and one peer, each polled by
   its own task, with inbound sync requests arriving in between. *)

RemoteTickStep == HTTP_TIMEOUT
RemoteHorizon == 2                 \* ticks of RemoteTickStep a run may last

remoteFrame == <<storeVars, configVars, aggVars, scanVars>>

WaitStates == {"post_wait", "get_wait", "sleep"}

(* RemotePoller.start: open the session, create one task per site *)
RemoteStart ==
    /\ session = "none"
    /\ session' = "open"
    /\ sitePc' = [s \in Sites |-> "poll"]
    /\ UNCHANGED <<now, data, settings, siteWake, saw404, lastPoll, remoteFrame>>

(* time passes while every task is suspended, never past a deadline *)
RemoteTick ==
    /\ session = "open"
    /\ now < RemoteHorizon * RemoteTickStep
    /\ \A s \in Sites : sitePc[s] # "poll" /\ (sitePc[s] \in WaitStates => now < siteWake[s])
    /\ now' = now + RemoteTickStep
    /\ UNCHANGED <<remoteVars, remoteFrame>>

(* _poll_loop, sync=False: _fetch_site issues GET /status *)
SiteGetIssued(s) ==
    /\ s \in RemoteSites
    /\ sitePc[s] = "poll"
    /\ sitePc' = [sitePc EXCEPT ![s] = "get_wait"]
    /\ siteWake' = [siteWake EXCEPT ![s] = now + HTTP_TIMEOUT]
    /\ UNCHANGED <<now, data, settings, session, saw404, lastPoll, remoteFrame>>

(* _poll_loop, sync=True: _sync_peer builds the local status and issues
   POST /sync *)
PeerPostIssued(s) ==
    /\ s \in Peers
    /\ sitePc[s] = "poll"
    /\ sitePc' = [sitePc EXCEPT ![s] = "post_wait"]
    /\ siteWake' = [siteWake EXCEPT ![s] = now + HTTP_TIMEOUT]
    /\ UNCHANGED <<now, data, settings, session, saw404, lastPoll, remoteFrame>>

(* self._local_status_fn() raises (line 286, outside the try): the exception
   leaves _sync_peer and _poll_loop, and the task ends *)
LocalStatusRaises(s) ==
    /\ s \in Peers
    /\ sitePc[s] = "poll"
    /\ sitePc' = [sitePc EXCEPT ![s] = "dead"]
    /\ UNCHANGED <<now, data, settings, session, siteWake, saw404, lastPoll, remoteFrame>>

(* a request in flight may end with resp now: the total timeout at its
   deadline, anything else before it *)
MayEndWith(s, resp) ==
    IF resp.kind = "timeout" THEN now >= siteWake[s] ELSE now < siteWake[s]

(* POST /sync ended.  A 404 falls back to _fetch_site, which issues
   GET /status; anything else is handled and the task sleeps. *)
PostDone(s) ==
    /\ sitePc[s] = "post_wait"
    /\ \E resp \in Responses, dbOk \in BOOLEAN :
          /\ MayEndWith(s, resp)
          /\ IF resp.kind = "http" /\ resp.status = 404
             THEN /\ saw404' = [saw404 EXCEPT ![s] = TRUE]
                  /\ sitePc' = [sitePc EXCEPT ![s] = "get_wait"]
                  /\ siteWake' = [siteWake EXCEPT ![s] = now + HTTP_TIMEOUT]
                  /\ UNCHANGED <<data, settings, lastPoll>>
             ELSE LET r == _sync_peer(data, settings, s, resp, dbOk, now)
                  IN /\ data' = r.data
                     /\ settings' = r.settings
                     /\ lastPoll' = [site |-> s, resp |-> resp]
                     /\ sitePc' = [sitePc EXCEPT ![s] = "sleep"]
                     /\ siteWake' = [siteWake EXCEPT ![s] = now + poll_interval]
                     /\ UNCHANGED saw404
    /\ UNCHANGED <<now, session, remoteFrame>>

(* GET /status ended; the task sleeps for poll_interval *)
GetDone(s) ==
    /\ sitePc[s] = "get_wait"
    /\ \E resp \in Responses, dbOk \in BOOLEAN :
          /\ MayEndWith(s, resp)
          /\ LET r == _fetch_site(data, settings, s, resp, dbOk, now)
             IN /\ data' = r.data
                /\ settings' = r.settings
                /\ lastPoll' = [site |-> s, resp |-> resp]
    /\ sitePc' = [sitePc EXCEPT ![s] = "sleep"]
    /\ siteWake' = [siteWake EXCEPT ![s] = now + poll_interval]
    /\ UNCHANGED <<now, session, saw404, remoteFrame>>

(* asyncio.sleep(site.poll_interval) returned: next iteration of while True *)
SleepDone(s) ==
    /\ sitePc[s] = "sleep"
    /\ now >= siteWake[s]
    /\ sitePc' = [sitePc EXCEPT ![s] = "poll"]
    /\ UNCHANGED <<now, data, settings, session, siteWake, saw404, lastPoll, remoteFrame>>

InboundBodies == {BodyA, BodyBadWeather}

(* ApiServer._handle_sync: a peer has POSTed body to /api/v1/sync *)
_handle_sync ==
    /\ session = "open"
    /\ \E body \in InboundBodies, dbOk \in BOOLEAN :
          LET peer_site_name == IF IsSome(body.site_name) /\ Get(body.site_name) # ""
                                THEN Get(body.site_name) ELSE "unknown"
              r == receive_peer_data(data, settings, peer_site_name, body, dbOk, now)
          IN data' = r.data /\ settings' = r.settings
    /\ UNCHANGED <<now, session, sitePc, siteWake, saw404, lastPoll, remoteFrame>>

(* RemotePoller.stop (lines 228-242): every task is cancelled, then awaited
   in turn with CancelledError swallowed.  Awaiting a task that has ended
   with another exception raises that exception out of stop(), before
   self._tasks is cleared and before the session is closed. *)
RemoteStop ==
    /\ session = "open"
    /\ session' = IF \E s \in Sites : sitePc[s] = "dead" THEN "open" ELSE "closed"
    /\ sitePc' = [s \in Sites |-> IF sitePc[s] = "dead" THEN "dead" ELSE "done"]
    /\ UNCHANGED <<now, data, settings, siteWake, saw404, lastPoll, remoteFrame>>

(* the process is started again on the same database: RemotePoller is
   constructed anew (lines 111-132) *)
RemoteRestart ==
    /\ session = "closed"
    /\ data' = LoadAll(settings, [s \in Sites |-> RemoteSiteData(s)], Sites)
    /\ session' = "none"
    /\ sitePc' = [s \in Sites |-> "new"]
    /\ siteWake' = [s \in Sites |-> 0]
    /\ saw404' = [s \in Sites |-> FALSE]
    /\ lastPoll' = [site |-> "", resp |-> NoResponse]
    /\ UNCHANGED <<now, settings, remoteFrame>>

NextRemote ==
    \/ RemoteStart
    \/ RemoteTick
    \/ \E s \in Sites : SiteGetIssued(s)
    \/ \E s \in Sites : PeerPostIssued(s)
    \/ \E s \in Sites : LocalStatusRaises(s)
    \/ \E s \in Sites : PostDone(s)
    \/ \E s \in Sites : GetDone(s)
    \/ \E s \in Sites : SleepDone(s)
    \/ _handle_sync
    \/ RemoteStop

SpecRemote == Init /\ [][NextRemote]_vars

(* the poller over several lives of the process, with no inbound sync *)
NextRestart ==
    \/ RemoteStart
    \/ RemoteTick
    \/ \E s \in Sites : SiteGetIssued(s)
    \/ \E s \in Sites : PeerPostIssued(s)
    \/ \E s \in Sites : PostDone(s)
    \/ \E s \in Sites : GetDone(s)
    \/ \E s \in Sites : SleepDone(s)
    \/ RemoteStop
    \/ RemoteRestart

SpecRestart == Init /\ [][NextRestart]_vars

(* what an earlier life of the process left in the settings table: the blob
   of a successful sync with the peer and of a successful poll of the
   read-only site *)
PersistedCache ==
    LET fresh == [s \in Sites |-> RemoteSiteData(s)]
        a == store_site(fresh, [s \in {} |-> <<>>], "lake", BodyA, TRUE, 0)
        b == store_site(a.data, a.settings, "cabin", BodyB, TRUE, 0)
    IN b.settings

(* RemotePoller.__init__ on a database that holds PersistedCache *)
CacheInit ==
    /\ now = 0
    /\ AppInit
    /\ StoreInit
    /\ ConfigInit
    /\ AggInit
    /\ ScanInit
    /\ sample = NoSample
    /\ decodePc = "ready"
    /\ decoded = None
    /\ decoder = "none"
    /\ settings = PersistedCache
    /\ data = LoadAll(settings, [s \in Sites |-> RemoteSiteData(s)], Sites)
    /\ session = "none"
    /\ sitePc = [s \in Sites |-> "new"]
    /\ siteWake = [s \in Sites |-> 0]
    /\ saw404 = [s \in Sites |-> FALSE]
    /\ lastPoll = [site |-> "", resp |-> NoResponse]

(* the poller started on a database with a persisted cache *)
SpecCache == CacheInit /\ [][NextRemote]_vars

----------------------------------------------------------------------------
(* The aggregator on its own: readings arrive through the scan callback,
   the aggregation task wakes every AGGREGATION_INTERVAL seconds of elapsed
   time, and the wall clock that datetime.now() reads may be set back. *)

AggTickStep == AGGREGATION_INTERVAL \div 2
ClockBack == AGGREGATION_INTERVAL      \* how far an adjustment sets the clock back
AggHorizon == 2                    \* wall-clock ticks of AggTickStep a run may reach
AggMaxAdds == 2                    \* readings one run stores
MaxClockSteps == 1                 \* clock adjustments in one run

AggAddresses == {"AA:BB:CC:00:00:01", "dd:ee:ff:00:00:02"}
AggAdverts == {AdvDf5Ok}

aggFrame == <<storeVars, configVars, scanVars, remoteVars, decodeVars, driftVars, appVars>>

(* Aggregator.start: create the _run task, which goes to sleep *)
AggStart ==
    /\ aggPc = "new"
    /\ aggPc' = "sleep"
    /\ aggLeft' = AGGREGATION_INTERVAL
    /\ aggRunning' = TRUE
    /\ UNCHANGED <<now, readingsTable, clockSteps, lastAggregate, weatherRest, aggFrame>>

(* time passes while the aggregation task sleeps *)
AggTick ==
    /\ aggPc = "sleep"
    /\ aggLeft > 0
    /\ now < AggHorizon * AggTickStep
    /\ now' = now + AggTickStep
    /\ aggLeft' = aggLeft - AggTickStep
    /\ UNCHANGED <<readingsTable, aggPc, clockSteps, lastAggregate, weatherVars, aggFrame>>

(* the wall clock is set back (clock correction, end of daylight saving
   time); the sleep, which runs on elapsed time, is not affected *)
ClockStepBack ==
    /\ aggPc = "sleep"
    /\ clockSteps < MaxClockSteps
    /\ now >= ClockBack
    /\ now' = now - ClockBack
    /\ clockSteps' = clockSteps + 1
    /\ UNCHANGED <<readingsTable, aggPc, aggLeft, lastAggregate, weatherVars, aggFrame>>

(* the sleep of _run ended: _aggregate, then the next sleep *)
Aggregate ==
    /\ aggPc = "sleep"
    /\ aggLeft = 0
    /\ \E failing \in SUBSET get_sensor_macs(sensors) :
          LET written == {m \in get_sensor_macs(sensors) \ failing :
                             Recent(history, m, now) # <<>>}
          IN /\ readingsTable' = _aggregate(sensors, history, readingsTable, now, failing)
             /\ lastAggregate' =
                   [bucket |-> BucketStart(now), written |-> written,
                    replaced |-> {m \in written :
                                     \E i \in DOMAIN readingsTable :
                                         /\ readingsTable[i].mac = upper(m)
                                         /\ readingsTable[i].timestamp = BucketStart(now)}]
    /\ aggLeft' = AGGREGATION_INTERVAL
    /\ UNCHANGED <<now, aggPc, clockSteps, aggFrame>>

(* the same in an aggregator without a Weather collaborator *)
AggWake ==
    /\ Aggregate
    /\ UNCHANGED weatherVars

(* the open handle delivers an advertisement *)
AggAdvert ==
    /\ pc = "scan_sleep"
    /\ scanner # None
    /\ TotalAdds < AggMaxAdds
    /\ \E a \in AggAddresses, adv \in AggAdverts : _detection_callback(a, adv, FALSE)

(* Aggregator.stop: cancel the task *)
AggStop ==
    /\ aggPc = "sleep"
    /\ aggPc' = "done"
    /\ aggRunning' = FALSE
    /\ UNCHANGED <<now, readingsTable, aggLeft, clockSteps, lastAggregate, weatherRest, aggFrame>>

NextAgg ==
    \/ LoopTop
    \/ StartOk
    \/ AggStart
    \/ AggTick
    \/ ClockStepBack
    \/ AggWake
    \/ AggAdvert
    \/ AggStop

SpecAgg == Init /\ [][NextAgg]_vars

----------------------------------------------------------------------------
(* The aggregator over two ticks of a steady wall clock, fed by frames that
   differ in temperature and in the optional fields they carry. *)

BucketHorizon == 4                 \* wall-clock ticks of AggTickStep a run may reach
BucketMaxAdds == 3                 \* readings one run stores

(* 2.00 C, humidity, pressure and battery voltage all at their sentinels *)
AdvDf5Bare == RuuviAdv(Df5Frame(400, 65535, 65535, 65535))
BucketAdverts == {AdvDf5Ok, AdvDf5Bare}

BucketTick ==
    /\ aggPc = "sleep"
    /\ aggLeft > 0
    /\ now < BucketHorizon * AggTickStep
    /\ now' = now + AggTickStep
    /\ aggLeft' = aggLeft - AggTickStep
    /\ UNCHANGED <<readingsTable, aggPc, clockSteps, lastAggregate, weatherVars, aggFrame>>

BucketAdvert ==
    /\ pc = "scan_sleep"
    /\ scanner # None
    /\ TotalAdds < BucketMaxAdds
    /\ \E a \in AggAddresses, adv \in BucketAdverts : _detection_callback(a, adv, FALSE)

NextBucket ==
    \/ LoopTop
    \/ StartOk
    \/ AggStart
    \/ BucketTick
    \/ AggWake
    \/ BucketAdvert

SpecBucket == Init /\ [][NextBucket]_vars

----------------------------------------------------------------------------
(* The aggregator over ticks that take time: _aggregate runs for a while
   without yielding, and the task may be resumed after its timer fell due. *)

DriftHorizon == 6                  \* wall-clock ticks of AggTickStep a run may reach
DriftMaxAdds == 2                  \* readings one run stores
DriftMaxLate == 1                  \* ticks of AggTickStep a wake-up may be overdue

(* how long one _aggregate runs; it has no await, so nothing else runs on the
   event loop meanwhile *)
ProcessingSeconds == {0, AggTickStep}

(* the readings of the configured sensors that _aggregate finds in its window
   at wall-clock time t, as (mac, timestamp) *)
WindowReadings(ss, hist, t) ==
    UNION {{<<m, Recent(hist, m, t)[i].timestamp>> : i \in DOMAIN Recent(hist, m, t)} :
              m \in get_sensor_macs(ss)}

(* time passes while the aggregation task is suspended in its sleep; a due
   timer is served when the event loop gets to it *)
DriftTick ==
    /\ aggPc = "sleep"
    /\ aggLeft > -(DriftMaxLate * AggTickStep)
    /\ now < DriftHorizon * AggTickStep
    /\ now' = now + AggTickStep
    /\ aggLeft' = aggLeft - AggTickStep
    /\ UNCHANGED <<readingsTable, aggPc, clockSteps, lastAggregate, weatherVars, aggFrame>>

(* the task is resumed after the sleep of _run: _aggregate reads the clock,
   writes the buckets and returns d seconds later; _run then starts the next
   sleep of AGGREGATION_INTERVAL (lines 84-87) *)
DriftWake ==
    /\ aggPc = "sleep"
    /\ aggLeft <= 0
    /\ \E d \in ProcessingSeconds :
          /\ now + d <= DriftHorizon * AggTickStep
          /\ now' = now + d
    /\ readingsTable' = _aggregate(sensors, history, readingsTable, now, {})
    /\ lastAggregate' =
          [bucket |-> BucketStart(now),
           written |-> {m \in get_sensor_macs(sensors) : Recent(history, m, now) # <<>>},
           replaced |-> {m \in get_sensor_macs(sensors) :
                            /\ Recent(history, m, now) # <<>>
                            /\ \E i \in DOMAIN readingsTable :
                                  /\ readingsTable[i].mac = upper(m)
                                  /\ readingsTable[i].timestamp = BucketStart(now)}]
    /\ tickAt' = Some(now)
    /\ counted' = counted \cup WindowReadings(sensors, history, now)
    /\ aggLeft' = AGGREGATION_INTERVAL
    /\ UNCHANGED <<aggPc, clockSteps, weatherVars, storeVars, configVars, scanVars,
                   remoteVars, decodeVars, appVars>>

(* the open handle delivers an advertisement *)
DriftAdvert ==
    /\ pc = "scan_sleep"
    /\ scanner # None
    /\ TotalAdds < DriftMaxAdds
    /\ \E a \in ScanAddresses, adv \in AggAdverts : _detection_callback(a, adv, FALSE)

NextDrift ==
    \/ LoopTop
    \/ StartOk
    \/ AggStart
    \/ DriftTick
    \/ DriftWake
    \/ DriftAdvert

SpecDrift == Init /\ [][NextDrift]_vars

----------------------------------------------------------------------------
(* HutWatchApp (app.py): run() awaits start() and, in its finally clause,
   stop(). *)

(* start() in the order of its statements (lines 67-185) *)
StartSteps ==
    <<"load_config", "connect", "sync_devices", "weather", "api", "remote",
      "aggregator", "scanner_task", "ui", "set_running">>

(* the components start() starts: the weather session, the API server, the
   remote poller, the aggregator tasks, the scanner task and the bot task,
   dashboard or console reporter *)
AppComponents == {"weather", "api", "remote", "aggregator", "scanner_task", "ui"}

(* whether start() executes the step under configuration cfg: lines 98,
   114-115 and 121-122 *)
Applies(step, cfg) ==
    CASE step = "weather" -> cfg.weather
      [] step = "api" -> cfg.api
      [] step = "remote" -> cfg.remote \/ cfg.api
      [] OTHER -> TRUE

(* the steps that can raise: reading the configuration, the database calls
   and the start() of a component that opens a session, a socket or a
   terminal; create_task and the assignment cannot *)
MayRaise == {"load_config", "connect", "sync_devices", "weather", "api", "remote", "ui"}

(* stop() in the order of its statements once _running was true (lines
   200-246) *)
StopOrder == <<"scanner_task", "remote", "api", "ui", "aggregator", "weather", "db">>

(* the stop() calls that can raise: RemotePoller.stop and Aggregator.stop
   re-raise the exception of a task that has ended with one *)
StopMayRaise == {"remote", "aggregator"}

(* the entries of StopOrder that stop() gets through when the call at
   raisesAt raises; "none": no call raises *)
StoppedBefore(raisesAt) ==
    {StopOrder[i] : i \in {j \in DOMAIN StopOrder :
                              \A k \in 1..j : StopOrder[k] # raisesAt}}

(* HutWatchApp.stop (lines 187-248): nothing when _running is false;
   otherwise _running is cleared and the components are stopped in turn, the
   database last *)
stop(isRunning, started, db, raisesAt) ==
    IF ~isRunning THEN [running |-> isRunning, started |-> started, db |-> db]
    ELSE LET done == StoppedBefore(raisesAt)
         IN [running |-> FALSE,
             started |-> started \ done,
             db |-> IF "db" \in done /\ db = "open" THEN "closed" ELSE db]

(* run() is called: the signal handlers are installed and start() begins *)
AppRun ==
    /\ appPc = "new"
    /\ appPc' = "starting"
    /\ UNCHANGED <<appStep, appConfig, appRunning, appStarted, appDb, appFailed>>
    /\ UNCHANGED <<now, storeVars, configVars, scanVars, remoteVars, readingsTable, aggPc,
                   aggLeft, clockSteps, lastAggregate, weatherVars, decodeVars, driftVars>>

(* the next step of start() returns *)
AppStartStep ==
    /\ appPc = "starting"
    /\ LET step == StartSteps[appStep]
       IN /\ IF step = "load_config"
             THEN \E cfg \in AppConfigs : appConfig' = cfg
             ELSE UNCHANGED appConfig
          /\ appDb' = IF step = "connect" THEN "open" ELSE appDb
          /\ appStarted' = IF step \in AppComponents /\ Applies(step, appConfig)
                           THEN appStarted \cup {step} ELSE appStarted
          /\ appRunning' = (appRunning \/ step = "set_running")
          /\ appPc' = IF step = "set_running" THEN "waiting" ELSE "starting"
          /\ appStep' = IF step = "set_running" THEN appStep ELSE appStep + 1
    /\ UNCHANGED appFailed
    /\ UNCHANGED <<now, storeVars, configVars, scanVars, remoteVars, readingsTable, aggPc,
                   aggLeft, clockSteps, lastAggregate, weatherVars, decodeVars, driftVars>>

(* the next step of start() raises: the exception leaves start() and the try
   block of run() (lines 299-310) *)
AppStartRaises ==
    /\ appPc = "starting"
    /\ StartSteps[appStep] \in MayRaise
    /\ Applies(StartSteps[appStep], appConfig)
    /\ appFailed' = StartSteps[appStep]
    /\ appPc' = "finally"
    /\ UNCHANGED <<appStep, appConfig, appRunning, appStarted, appDb>>
    /\ UNCHANGED <<now, storeVars, configVars, scanVars, remoteVars, readingsTable, aggPc,
                   aggLeft, clockSteps, lastAggregate, weatherVars, decodeVars, driftVars>>

(* a shutdown signal sets the event and the waiting loop of run() ends *)
AppShutdown ==
    /\ appPc = "waiting"
    /\ appPc' = "finally"
    /\ UNCHANGED <<appStep, appConfig, appRunning, appStarted, appDb, appFailed>>
    /\ UNCHANGED <<now, storeVars, configVars, scanVars, remoteVars, readingsTable, aggPc,
                   aggLeft, clockSteps, lastAggregate, weatherVars, decodeVars, driftVars>>

(* finally: await self.stop(); then run() returns or passes the exception on *)
AppStop ==
    /\ appPc = "finally"
    /\ \E raisesAt \in {"none"} \cup (StopMayRaise \cap appStarted) :
          LET r == stop(appRunning, appStarted, appDb, raisesAt)
          IN /\ appRunning' = r.running
             /\ appStarted' = r.started
             /\ appDb' = r.db
    /\ appPc' = "returned"
    /\ UNCHANGED <<appStep, appConfig, appFailed>>
    /\ UNCHANGED <<now, storeVars, configVars, scanVars, remoteVars, readingsTable, aggPc,
                   aggLeft, clockSteps, lastAggregate, weatherVars, decodeVars, driftVars>>

NextApp ==
    \/ AppRun
    \/ AppStartStep
    \/ AppStartRaises
    \/ AppShutdown
    \/ AppStop

SpecApp == Init /\ [][NextApp]_vars

----------------------------------------------------------------------------
(* The aggregator with a Weather collaborator: start() creates the _run and
   the _run_weather task, and stop() ends both. *)

TasksTickStep == AGGREGATION_INTERVAL
TasksHorizon == 2                  \* wall-clock ticks of TasksTickStep a run may reach
TasksMaxStops == 2                 \* calls of Aggregator.stop() in one run

(* what one _fetch_weather meets: the collaborator returns data, returns
   None, or an exception leaves _fetch_weather *)
FetchOutcomes == {"data", "none", "raises"}
WeatherTemps == {5000}

(* Database.save_weather: INSERT OR REPLACE under UNIQUE(timestamp); a
   failing write is logged and changes nothing *)
save_weather(rows, row, ok) ==
    IF ok
    THEN Append(SelectSeq(rows, LAMBDA r : r.timestamp # row.timestamp), row)
    ELSE rows

(* _fetch_weather at wall-clock time t, when no exception leaves it *)
_fetch_weather(rows, outcome, temp, t, ok) ==
    IF outcome = "data"
    THEN save_weather(rows, [timestamp |-> BucketStart(t), temperature |-> temp], ok)
    ELSE rows

(* the open handle delivers a frame of the configured sensor *)
TasksAdvert ==
    /\ pc = "scan_sleep"
    /\ scanner # None
    /\ TotalAdds < AggMaxAdds
    /\ \E a \in ScanAddresses, adv \in AggAdverts : _detection_callback(a, adv, FALSE)

(* Aggregator.start with self._weather set *)
TasksStart ==
    /\ aggPc = "new"
    /\ ~aggRunning
    /\ aggRunning' = TRUE
    /\ aggPc' = "sleep"
    /\ aggLeft' = AGGREGATION_INTERVAL
    /\ weatherPc' = "first"
    /\ UNCHANGED <<now, readingsTable, clockSteps, lastAggregate, weatherLeft,
                   weatherTable, stopResult, lastTick, aggFrame>>

(* time passes while the tasks sleep or the first fetch is in flight, and
   after they have ended *)
TasksTick ==
    /\ aggPc = "sleep" => aggLeft > 0
    /\ weatherPc = "sleep" => weatherLeft > 0
    /\ now < TasksHorizon * TasksTickStep
    /\ now' = now + TasksTickStep
    /\ aggLeft' = IF aggPc = "sleep" THEN aggLeft - TasksTickStep ELSE aggLeft
    /\ weatherLeft' = IF weatherPc = "sleep" THEN weatherLeft - TasksTickStep ELSE weatherLeft
    /\ UNCHANGED <<readingsTable, aggPc, clockSteps, lastAggregate, aggRunning, weatherPc,
                   weatherTable, stopResult, lastTick, aggFrame>>

(* _run_weather, line 163: the fetch made as the task starts, outside any
   try; an exception leaving it ends the task *)
WeatherFirst ==
    /\ weatherPc = "first"
    /\ \E outcome \in FetchOutcomes, temp \in WeatherTemps, ok \in BOOLEAN :
          /\ weatherTable' = _fetch_weather(weatherTable, outcome, temp, now, ok)
          /\ weatherPc' = IF outcome = "raises" THEN "dead" ELSE "sleep"
          /\ weatherLeft' = IF outcome = "raises" THEN weatherLeft ELSE WEATHER_FETCH_INTERVAL
          /\ lastTick' = [task |-> "weather", raised |-> outcome = "raises"]
    /\ UNCHANGED <<now, readingsTable, aggPc, aggLeft, clockSteps, lastAggregate,
                   aggRunning, stopResult, aggFrame>>

(* _run_weather, lines 165-172: the sleep ended; an exception leaving the
   fetch is logged and the loop goes on *)
WeatherWake ==
    /\ weatherPc = "sleep"
    /\ weatherLeft = 0
    /\ \E outcome \in FetchOutcomes, temp \in WeatherTemps, ok \in BOOLEAN :
          /\ weatherTable' = _fetch_weather(weatherTable, outcome, temp, now, ok)
          /\ lastTick' = [task |-> "weather", raised |-> outcome = "raises"]
    /\ weatherLeft' = WEATHER_FETCH_INTERVAL
    /\ UNCHANGED <<now, readingsTable, aggPc, aggLeft, clockSteps, lastAggregate,
                   aggRunning, weatherPc, stopResult, aggFrame>>

(* _run, lines 84-91: the sleep ended and _aggregate ran to its end *)
TasksAggWake ==
    /\ Aggregate
    /\ lastTick' = [task |-> "aggregate", raised |-> FALSE]
    /\ UNCHANGED <<aggRunning, weatherPc, weatherLeft, weatherTable, stopResult>>

(* _run, lines 90-91: an exception leaves _aggregate after the first k
   sensors; it is logged and the loop goes on *)
TasksAggRaises ==
    /\ aggPc = "sleep"
    /\ aggLeft = 0
    /\ \E k \in 0..(Len(sensors) - 1) :
          LET done == SubSeq(sensors, 1, k)
              written == {m \in get_sensor_macs(done) : Recent(history, m, now) # <<>>}
          IN /\ readingsTable' = _aggregate(done, history, readingsTable, now, {})
             /\ lastAggregate' =
                   [bucket |-> BucketStart(now), written |-> written,
                    replaced |-> {m \in written :
                                     \E i \in DOMAIN readingsTable :
                                         /\ readingsTable[i].mac = upper(m)
                                         /\ readingsTable[i].timestamp = BucketStart(now)}]
    /\ aggLeft' = AGGREGATION_INTERVAL
    /\ lastTick' = [task |-> "aggregate", raised |-> TRUE]
    /\ UNCHANGED <<now, aggPc, clockSteps, aggRunning, weatherPc, weatherLeft,
                   weatherTable, stopResult, aggFrame>>

(* Aggregator.stop, lines 58-80: nothing when not running; else both tasks
   are cancelled and awaited in turn.  Awaiting a task that an exception has
   ended raises that exception out of stop(). *)
TasksStop ==
    /\ stopResult.calls < TasksMaxStops
    /\ IF ~aggRunning
       THEN /\ stopResult' = [calls |-> stopResult.calls + 1, raised |-> FALSE]
            /\ UNCHANGED <<aggRunning, aggPc, weatherPc>>
       ELSE /\ aggRunning' = FALSE
            /\ aggPc' = "done"
            /\ weatherPc' = IF weatherPc = "dead" THEN "dead" ELSE "done"
            /\ stopResult' = [calls |-> stopResult.calls + 1,
                              raised |-> weatherPc = "dead"]
    /\ UNCHANGED <<now, readingsTable, aggLeft, clockSteps, lastAggregate, weatherLeft,
                   weatherTable, lastTick, aggFrame>>

NextTasks ==
    \/ LoopTop
    \/ StartOk
    \/ TasksAdvert
    \/ TasksStart
    \/ TasksTick
    \/ WeatherFirst
    \/ WeatherWake
    \/ TasksAggWake
    \/ TasksAggRaises
    \/ TasksStop

SpecTasks == Init /\ [][NextTasks]_vars

----------------------------------------------------------------------------
(* The decoders on their own: a sensor broadcasts one frame built from raw
   words, and the frame is handed to the parser. *)

(* raw 16-bit words of a format-5 frame: ordinary values, the ends of the
   range and the not-available sentinels *)
Df5Temps == {0, 200, 32767, 32768, 65535}
Df5Hums == {0, 32768, 65534, 65535}
Df5Pressures == {0, 49788, 65535}
Df5Powers == {0, 31, 65476, 65503, 65504, 65535}

Df5Samples ==
    [kind : {"df5"}, temp : Df5Temps, hum : Df5Hums, pres : Df5Pressures, power : Df5Powers]

(* bytes and words of a format-3 frame of len bytes *)
Df3Samples ==
    [kind : {"df3"}, hum : {0, 80}, int : {0, 1, 21, 127, 128, 235, 255},
     frac : {0, 50, 99, 255}, pres : {0, 50325}, mv : {3000}, len : {14, 16}]

(* words and bytes of an ATC frame (13 bytes) and of a PVVX frame of len bytes *)
XiaomiTemps == {0, 215, 55040, 32768, 65535}
AtcSamples ==
    [kind : {"atc"}, temp : XiaomiTemps, hum : {45}, pct : {90}, mv : {3000}]
PvvxSamples ==
    [kind : {"pvvx"}, temp : XiaomiTemps, hum : {4500}, pct : {90}, mv : {3000},
     len : 15..19]

(* records that are not well-formed frames: a payload of len bytes that
   starts with byte `first`, under the Ruuvi manufacturer key, under the
   Xiaomi service key, or under neither *)
MaxRawLen == 19
RawSamples ==
    [kind : {"raw"}, key : {"ruuvi", "xiaomi", "other"}, first : {3, 5, 7}, len : 0..MaxRawLen]

(* the payload written in the end-to-end example, and the same with the
   third acceleration word in place *)
Df5ExampleShort == <<5, 0, 200, 128, 0, 194, 124, 0, 0, 0, 0, 255, 196, 0, 2, 0>>
Df5ExampleFull == <<5, 0, 200, 128, 0, 194, 124, 0, 0, 0, 0, 0, 0, 255, 196, 0, 2, 0>>
ExampleSamples == [kind : {"example"}, payload : {Df5ExampleShort, Df5ExampleFull}]

Samples ==
    Df5Samples \cup Df3Samples \cup AtcSamples \cup PvvxSamples \cup RawSamples
        \cup ExampleSamples

Zeros(n) == [i \in 1..n |-> 0]

Df3Frame(sm) ==
    <<3, sm.hum, sm.int, sm.frac, sm.pres \div 256, sm.pres % 256, 0, 0, 0, 0, 0, 0,
      sm.mv \div 256, sm.mv % 256>> \o Zeros(sm.len - 14)
AtcFrame(sm) ==
    <<1, 2, 3, 4, 5, 6, sm.temp \div 256, sm.temp % 256, sm.hum, sm.pct,
      sm.mv \div 256, sm.mv % 256, 7>>
PvvxFrame(sm) ==
    <<6, 5, 4, 3, 2, 1, sm.temp % 256, sm.temp \div 256, sm.hum % 256, sm.hum \div 256,
      sm.mv % 256, sm.mv \div 256, sm.pct, 7, 0>> \o Zeros(sm.len - 15)
RawPayload(sm) == IF sm.len = 0 THEN <<>> ELSE <<sm.first>> \o Zeros(sm.len - 1)

(* the advertisement that carries a sample *)
FrameOf(sm) ==
    CASE sm.kind = "df5" -> RuuviAdv(Df5Frame(sm.temp, sm.hum, sm.pres, sm.power))
      [] sm.kind = "df3" -> RuuviAdv(Df3Frame(sm))
      [] sm.kind = "atc" -> XiaomiAdv(AtcFrame(sm))
      [] sm.kind = "pvvx" -> XiaomiAdv(PvvxFrame(sm))
      [] sm.kind = "example" -> RuuviAdv(sm.payload)
      [] sm.kind = "raw" /\ sm.key = "ruuvi" -> RuuviAdv(RawPayload(sm))
      [] sm.kind = "raw" /\ sm.key = "xiaomi" -> XiaomiAdv(RawPayload(sm))
      [] OTHER -> [manufacturer_data |-> [x \in {76} |-> RawPayload(sm)],
                   service_data |-> EmptyMap, rssi |-> -80]

DecodeAddress == "AA:BB:CC:00:00:01"

(* the statements of parse() that run outside any try raise: the lookup of
   the parser's key (KeyError) or data[0] (IndexError), reached only when
   can_parse let the record through *)
DecodeRaises(kind, adv) ==
    /\ can_parse(kind, adv)
    /\ IF kind = "ruuvi"
       THEN \/ RUUVI_MANUFACTURER_ID \notin DOMAIN adv.manufacturer_data
            \/ Len(adv.manufacturer_data[RUUVI_MANUFACTURER_ID]) = 0
       ELSE ATC_SERVICE_UUID \notin DOMAIN adv.service_data

DecodeInit ==
    /\ ProgramInit
    /\ sample \in Samples
    /\ decodePc = "ready"
    /\ decoded = None
    /\ decoder = "none"

(* RuuviParser.parse / XiaomiParser.parse (device, advertisement_data) *)
Decode ==
    /\ decodePc = "ready"
    /\ \E kind \in {Parsers[i] : i \in DOMAIN Parsers} :
          /\ decoder' = kind
          /\ IF DecodeRaises(kind, FrameOf(sample))
             THEN decodePc' = "raised" /\ decoded' = None
             ELSE /\ decodePc' = "done"
                  /\ decoded' = parse(kind, DecodeAddress, FrameOf(sample), now)
    /\ UNCHANGED <<now, sample, storeVars, configVars, scanVars, remoteVars,
                   readingsTable, aggPc, aggLeft, clockSteps, lastAggregate, weatherVars,
                   driftVars, appVars>>

NextDecode == Decode

SpecDecode == DecodeInit /\ [][NextDecode]_vars

----------------------------------------------------------------------------
(* SensorStore on its own: readings arrive over a day and a half, and
   readers ask for history. *)

StoreTickStep == 6 * 3600
StoreHorizon == 5                  \* ticks of StoreTickStep a run may last
StoreMaxAdds == 4                  \* readings one run of the store receives

StoreAddresses == {"AA:BB:CC:00:00:01", "dd:ee:ff:00:00:02"}
HoursAsked == {1, 24, 48}

storeFrame == <<configVars, aggVars, scanVars, remoteVars, lockVars>>

StoreTick ==
    /\ now < StoreHorizon * StoreTickStep
    /\ now' = now + StoreTickStep
    /\ histResult' = NoResult
    /\ UNCHANGED <<latest, history, arrivals, storeFrame>>

(* add_reading of a reading taken now; each arrival carries its own
   temperature so that arrivals can be told apart *)
StoreAddReading ==
    /\ TotalAdds < StoreMaxAdds
    /\ \E a \in StoreAddresses :
          StoreAdd(SensorReading(a, now, 20000 + 100 * TotalAdds,
                                 None, None, None, None))
    /\ histResult' = NoResult
    /\ UNCHANGED <<now, storeFrame>>

(* a reader calls get_history(mac, hours) *)
StoreGetHistory ==
    /\ \E a \in StoreAddresses, hours \in HoursAsked :
          histResult' = [mac |-> a, hours |-> hours, at |-> now,
                         result |-> get_history(history, a, hours, now)]
    /\ UNCHANGED <<now, latest, history, arrivals, storeFrame>>

NextStore ==
    \/ StoreTick
    \/ StoreAddReading
    \/ StoreGetHistory

SpecStore == Init /\ [][NextStore]_vars

----------------------------------------------------------------------------
(* SensorStore under two threads: one calls add_reading, the other the get_*
   methods; each statement of add_reading's critical section is a step.  A
   call lasts far less than a tick of this clock, so the clock stands still
   while an add is under way. *)

LockTickStep == 12 * 3600
LockHorizon == 3                   \* ticks of LockTickStep a run may last
LockMaxAdds == 3                   \* readings one run of the store receives
LockAddresses == {"AA:BB:CC:00:00:01", "dd:ee:ff:00:00:02"}
ReadOps == {"get_latest", "get_all_latest", "get_history"}

lockFrame == <<configVars, aggVars, scanVars, remoteVars, histResult>>

LockTick ==
    /\ addPc = "idle"
    /\ now < LockHorizon * LockTickStep
    /\ now' = now + LockTickStep
    /\ UNCHANGED <<latest, history, arrivals, lockVars, lockFrame>>

(* add_reading is called with a reading taken now (line 31) *)
AddCall ==
    /\ addPc = "idle"
    /\ TotalAdds < LockMaxAdds
    /\ \E a \in LockAddresses :
          pending' = Some(SensorReading(a, now, 20000 + 100 * TotalAdds,
                                        None, None, None, None))
    /\ addPc' = "acquire"
    /\ UNCHANGED <<now, latest, history, arrivals, lock, readPc, readCall, returned, lockFrame>>

(* with self._lock: (line 33) *)
AddAcquire ==
    /\ addPc = "acquire"
    /\ LockIsFree(lock)
    /\ lock' = "add"
    /\ addPc' = "latest"
    /\ UNCHANGED <<now, latest, history, arrivals, pending, readPc, readCall, returned,
                   lockFrame>>

(* self._latest[mac] = reading (line 34) *)
AddSetLatest ==
    /\ addPc = "latest"
    /\ latest' = Put(latest, upper(Get(pending).mac), Get(pending))
    /\ addPc' = "append"
    /\ UNCHANGED <<now, history, arrivals, lock, pending, readPc, readCall, returned,
                   lockFrame>>

(* the deque is created when missing, and the reading appended (lines 36-39) *)
AddAppend ==
    /\ addPc = "append"
    /\ LET mac == upper(Get(pending).mac)
           h0 == IF mac \in DOMAIN history THEN history[mac] ELSE <<>>
       IN history' = Put(history, mac, deque_append(h0, Get(pending)))
    /\ addPc' = "cleanup"
    /\ UNCHANGED <<now, latest, arrivals, lock, pending, readPc, readCall, returned,
                   lockFrame>>

(* self._cleanup_old_readings(mac) (line 40) *)
AddCleanup ==
    /\ addPc = "cleanup"
    /\ LET mac == upper(Get(pending).mac)
       IN history' = Put(history, mac, _cleanup_old_readings(history[mac], now))
    /\ addPc' = "release"
    /\ UNCHANGED <<now, latest, arrivals, lock, pending, readPc, readCall, returned,
                   lockFrame>>

(* the with block is left and add_reading returns *)
AddRelease ==
    /\ addPc = "release"
    /\ lock' = "free"
    /\ addPc' = "idle"
    /\ pending' = None
    /\ LET mac == upper(Get(pending).mac)
       IN arrivals' = Put(arrivals, mac,
                          Append(IF mac \in DOMAIN arrivals THEN arrivals[mac] ELSE <<>>,
                                 Get(pending)))
    /\ UNCHANGED <<now, latest, history, readPc, readCall, returned, lockFrame>>

(* a get_* method is called; get_history works out its cutoff from the time
   of the call, before it takes the lock (line 77) *)
ReadCall ==
    /\ readPc = "idle"
    /\ \E op \in ReadOps, a \in LockAddresses :
          readCall' = [op |-> op,
                       mac |-> IF op = "get_all_latest" THEN "" ELSE a,
                       at |-> IF op = "get_history" THEN now ELSE 0]
    /\ readPc' = "acquire"
    /\ returned' = NoReturn
    /\ UNCHANGED <<now, latest, history, arrivals, lock, addPc, pending, lockFrame>>

(* with self._lock: (lines 62, 67, 79) *)
ReadAcquire ==
    /\ readPc = "acquire"
    /\ LockIsFree(lock)
    /\ lock' = "read"
    /\ readPc' = "read"
    /\ UNCHANGED <<now, latest, history, arrivals, addPc, pending, readCall, returned,
                   lockFrame>>

(* the return statement inside the with block, and the release *)
ReadReturn ==
    /\ readPc = "read"
    /\ returned' =
          [op |-> readCall.op, mac |-> readCall.mac,
           latest |-> IF readCall.op = "get_latest"
                      THEN get_latest(latest, readCall.mac) ELSE None,
           all |-> IF readCall.op = "get_all_latest"
                   THEN get_all_latest(latest) ELSE NoReturn.all,
           hist |-> IF readCall.op = "get_history"
                    THEN get_history(history, readCall.mac, 24, readCall.at)
                    ELSE <<>>]
    /\ lock' = "free"
    /\ readPc' = "idle"
    /\ readCall' = NoCall
    /\ UNCHANGED <<now, latest, history, arrivals, addPc, pending, lockFrame>>

NextLock ==
    \/ LockTick
    \/ AddCall
    \/ AddAcquire
    \/ AddSetLatest
    \/ AddAppend
    \/ AddCleanup
    \/ AddRelease
    \/ ReadCall
    \/ ReadAcquire
    \/ ReadReturn

SpecLock == Init /\ [][NextLock]_vars

----------------------------------------------------------------------------
(* Scan supervisor: claims *)

SetMax(S) == CHOOSE x \in S : \A y \in S : y <= x

(* the times at which a reading was handed to SensorStore *)
StoreTimes ==
    UNION {{arrivals[m][i].timestamp : i \in DOMAIN arrivals[m]} : m \in DOMAIN arrivals}

(* a check that found nothing to do and went back to sleep *)
CheckContinues == pc = "scan_sleep" /\ pc' = "scan_sleep" /\ wakeAt' # wakeAt

(* C1: once stop() has been called on a running supervisor, no new scan
   handle is started and the running flag is never true again. *)
C1_StoppedIsTerminal ==
    [][stopCalled => (handlesOpened' = handlesOpened /\ ~running')]_vars

(* C2: run_with_restart ends only after an external stop() or a cancellation;
   after an exception the handler stops the handle, resets the adapter, backs
   off for ERROR_BACKOFF seconds and goes to the next cycle, however many
   cycles have failed in a row. *)
C2_NeverSelfTerminates ==
    /\ [](pc = "stopped" => stopCalled)
    /\ [](pc = "cancelled" => cancelled)
    /\ [][(pc = "starting" /\ pc' \notin {"starting", "scan_sleep", "cancel_stop"})
            => (pc' = "err_stop" /\ failures' = failures + 1)]_vars
    /\ [][(pc = "err_stop" /\ pc' # pc /\ ~cancelled')
            => (pc' = "err_reset" /\ scanner' = None)]_vars
    /\ [][(pc = "err_reset" /\ pc' # pc /\ ~cancelled') => pc' = "backoff"]_vars
    /\ [][(pc = "backoff" /\ pc' # pc /\ ~cancelled')
            => (pc' = "loop_top" /\ now >= wakeAt)]_vars
    /\ [](pc = "backoff" => wakeAt >= now)
    /\ [][(pc = "err_reset" /\ pc' = "backoff") => wakeAt' = now + ERROR_BACKOFF]_vars

(* C2 witness: a further cycle is being started after two failures in a row,
   with neither a stop nor a cancellation. *)
C2_Witness ==
    failures >= 2 /\ pc = "starting" /\ ~stopCalled /\ ~cancelled

(* C3 as stated: a check never goes back to sleep when the last reading was
   stored more than WATCHDOG_TIMEOUT_SECONDS ago. *)
C3_WatchdogSinceLastReading ==
    [][CheckContinues =>
         ~(StoreTimes # {} /\ now - SetMax(StoreTimes) > WATCHDOG_TIMEOUT_SECONDS)]_vars

(* C3 amended: the watchdog clock is the later of the current handle's start
   and the last stored reading; a check never goes back to sleep when that
   clock is more than WATCHDOG_TIMEOUT_SECONDS old, and only a started handle
   or a stored reading moves the clock. *)
C3_WatchdogSinceClock ==
    /\ [](pc = "scan_sleep" =>
            last_data_time = Some(SetMax({cycle_start} \cup {t \in StoreTimes : t >= cycle_start})))
    /\ [][CheckContinues =>
            ~(now - Get(last_data_time) > WATCHDOG_TIMEOUT_SECONDS)]_vars
    /\ [][last_data_time' # last_data_time =>
            (arrivals' # arrivals \/ handlesOpened' # handlesOpened)]_vars

(* C3 witness: the watchdog ended a cycle before the proactive interval, the
   last advertisement delivered having been one that decoded to nothing. *)
C3_Witness ==
    /\ pc = "stopping" /\ lastExit = "watchdog"
    /\ now - cycle_start < RESTART_INTERVAL_SECONDS
    /\ lastCallback.mac # "" /\ ~lastCallback.stored

(* a check at which the watchdog ends the scan loop *)
WatchdogExit == pc = "scan_sleep" /\ pc' = "stopping" /\ lastExit' = "watchdog"

(* C12: the watchdog clock is set to the present when a fresh handle starts,
   so the watchdog ends a scan loop only when the handle has been scanning
   for more than WATCHDOG_TIMEOUT_SECONDS with no reading stored in that
   time, and two watchdog restarts in a row are more than
   WATCHDOG_TIMEOUT_SECONDS apart. *)
C12_NoRestartStorm ==
    /\ [][handlesOpened' # handlesOpened =>
            (last_data_time' = Some(now) /\ cycle_start' = now)]_vars
    /\ [][WatchdogExit =>
            /\ now - cycle_start > WATCHDOG_TIMEOUT_SECONDS
            /\ \A t \in StoreTimes : now - t > WATCHDOG_TIMEOUT_SECONDS
            /\ watchdogAt' = Append(watchdogAt, now)
            /\ handlesOpened' = handlesOpened]_vars
    /\ [](\A i \in DOMAIN watchdogAt : i > 1 =>
            watchdogAt[i] - watchdogAt[i - 1] > WATCHDOG_TIMEOUT_SECONDS)
    /\ [](Len(watchdogAt) <= handlesOpened)

(* C12 witness: the watchdog has ended two scan loops in a row, the second
   handle having been started right after the first was stopped. *)
C12_Witness ==
    /\ Len(watchdogAt) = 2
    /\ handlesOpened = 2
    /\ pc = "stopping" /\ lastExit = "watchdog"
    /\ cycle_start - watchdogAt[1] <= RESTART_PAUSE

(* the handle of the current cycle has been started and is still held *)
HandleOpen == IsSome(scanner) /\ Get(scanner) = handlesOpened

(* C13: a check made RESTART_INTERVAL_SECONDS or more into a cycle ends the
   scan loop whatever the watchdog clock says, and the started handle is
   never held for more than RESTART_INTERVAL_SECONDS plus one check
   interval. *)
C13_ProactiveRestart ==
    /\ [][(pc = "scan_sleep" /\ now >= wakeAt /\ pc' # "cancel_stop" /\ wakeAt' # wakeAt
             /\ now - cycle_start >= RESTART_INTERVAL_SECONDS)
            => (pc' = "stopping" /\ lastExit' = "proactive")]_vars
    /\ [](pc = "scan_sleep" => wakeAt <= cycle_start + RESTART_INTERVAL_SECONDS)
    /\ [](HandleOpen => now - cycle_start <= RESTART_INTERVAL_SECONDS + check_interval)

(* C13 witness: a cycle in which a reading was stored is ended by the
   proactive timer, and the stop of its handle hangs until the timeout. *)
C13_Witness ==
    /\ pc = "stopping" /\ lastExit = "proactive" /\ HandleOpen
    /\ IsSome(last_data_time) /\ Get(last_data_time) > cycle_start
    /\ now - cycle_start = RESTART_INTERVAL_SECONDS + check_interval

(* the supervisor is inside _stop_scanner_safe *)
StopWaitStates == {"stopping", "err_stop", "cancel_stop"}

(* C14: _stop_scanner_safe, entered from the restart cycle, the error
   handler, the cancellation handler or stop(), ends no later than
   STOP_TIMEOUT_SECONDS after it was entered; when it ends the handle
   reference is dropped and its caller goes on: the cycle to its pause or its
   return, the error handler to the adapter reset, stop() to its return. *)
C14_StopIsBounded ==
    /\ [][(pc' \in StopWaitStates /\ pc' # pc) =>
            (wakeAt' >= now /\ wakeAt' - now <= STOP_TIMEOUT_SECONDS)]_vars
    /\ [](pc \in StopWaitStates => wakeAt - now <= STOP_TIMEOUT_SECONDS)
    /\ [](stopPc = "waiting" => stopWake - now <= STOP_TIMEOUT_SECONDS)
    /\ [][(pc \in StopWaitStates /\ pc' # pc) =>
            /\ scanner' = None
            /\ pc = "stopping" => pc' \in {"pause", "stopped", "cancelled"}
            /\ pc = "err_stop" => pc' \in {"err_reset", "cancelled"}
            /\ pc = "cancel_stop" => pc' = "cancelled"]_vars
    /\ [][(stopPc = "waiting" /\ stopPc' = "idle") => scanner' = None]_vars
    /\ [](pc \in StopWaitStates /\ now >= wakeAt =>
            ENABLED (StopHandleDone \/ ErrStopDone \/ CancelStopDone))
    /\ [](stopPc = "waiting" /\ now >= stopWake => ENABLED StopWaitDone)

(* C14 witness: the stop of the handle hung until the timeout in the restart
   cycle, the cycle has gone on to open the next handle, and a stop() called
   meanwhile is itself waiting on a handle. *)
C14_Witness ==
    /\ Len(watchdogAt) = 1
    /\ pc = "scan_sleep" /\ handlesOpened = 2
    /\ cycle_start - watchdogAt[1] >= STOP_TIMEOUT_SECONDS + RESTART_PAUSE
    /\ stopPc = "waiting" /\ stopWake = now + STOP_TIMEOUT_SECONDS

(* C15: a cancellation can be delivered in every wait of run_with_restart;
   from then on no cycle is begun and no handle is started, the task is
   either ended or inside the cancellation handler's _stop_scanner_safe,
   which lasts at most STOP_TIMEOUT_SECONDS, and when the task has ended no
   handle is held. *)
C15_CancelEndsSupervisor ==
    /\ [](pc \in AwaitStates \ {"cancel_stop"} /\ ~cancelled => ENABLED Cancel)
    /\ [](cancelled => pc \in {"cancel_stop", "cancelled"})
    /\ [](pc = "cancel_stop" => wakeAt - now <= STOP_TIMEOUT_SECONDS)
    /\ [][(~cancelled /\ cancelled') =>
            \/ pc' = "cancelled"
            \/ pc' = "cancel_stop" /\ (scanner = None => wakeAt' = now)]_vars
    /\ [][cancelled =>
            (restart_count' = restart_count /\ handlesOpened' = handlesOpened)]_vars
    /\ [][~cancelled /\ cancelled' =>
            (restart_count' = restart_count /\ handlesOpened' = handlesOpened)]_vars
    /\ [](pc = "cancelled" => scanner = None)

(* C15 witness: the task was cancelled in the backoff sleep of the exception
   handler, before the sleep's deadline, and has ended holding no handle. *)
C15_Witness ==
    /\ pc = "cancelled" /\ cancelled /\ scanner = None
    /\ failures >= 1 /\ wakeAt > now
    /\ ~stopCalled

----------------------------------------------------------------------------
(* SensorStore: claims *)

IsSuffixOf(s, t) ==
    Len(s) <= Len(t) /\ s = SubSeq(t, Len(t) - Len(s) + 1, Len(t))
LastN(t, n) == SubSeq(t, Len(t) - Min2(Len(t), n) + 1, Len(t))

(* every arrival of the sequence is within HISTORY_DURATION of the last one *)
AllWithinRetention(a) ==
    \A i \in DOMAIN a : a[i].timestamp >= a[Len(a)].timestamp - HISTORY_DURATION

(* C6: a sensor's history never holds more than the deque's capacity; it is
   always the tail end of the arrivals, so what overflow drops is the oldest;
   and when all arrivals fall within the retention window it is exactly the
   last `capacity` arrivals in arrival order. *)
C6_HistoryBounded ==
    \A m \in DOMAIN history :
        /\ Len(history[m]) <= MaxReadings
        /\ IsSuffixOf(history[m], arrivals[m])
        /\ AllWithinRetention(arrivals[m])
              => history[m] = LastN(arrivals[m], MaxReadings)

(* C6 witness: more readings than the capacity have arrived for one sensor
   within the retention window, and its history is full. *)
C6_Witness ==
    \E m \in DOMAIN history :
        /\ Len(arrivals[m]) > MaxReadings
        /\ AllWithinRetention(arrivals[m])
        /\ Len(history[m]) = MaxReadings

(* C7: get_history never returns a reading older than HISTORY_DURATION at
   the time of the call, whatever duration was asked for. *)
C7_NoStaleHistory ==
    \A i \in DOMAIN histResult.result :
        histResult.result[i].timestamp >= histResult.at - HISTORY_DURATION

(* r can be had from s by leaving elements out *)
RECURSIVE IsSubseqOf(_, _)
IsSubseqOf(r, s) ==
    IF r = <<>> THEN TRUE
    ELSE IF s = <<>> THEN FALSE
    ELSE IF Head(r) = Head(s) THEN IsSubseqOf(Tail(r), Tail(s))
    ELSE IsSubseqOf(r, Tail(s))

(* the readings of sensor m in a map, none when the map has no such key *)
ReadingsOf(d, m) == IF m \in DOMAIN d THEN d[m] ELSE <<>>

(* C17: what get_history returns for a sensor is a subsequence of the
   readings added for that sensor, in the order of the adds, each at most as
   often as it was added; and a step that adds nothing for a sensor changes
   neither that sensor's history nor its latest reading. *)
C17_ArrivalOrderPerSensor ==
    /\ [](IsSubseqOf(histResult.result, ReadingsOf(arrivals, upper(histResult.mac))))
    /\ [](\A m \in DOMAIN history : IsSubseqOf(history[m], ReadingsOf(arrivals, m)))
    /\ [][\A a \in StoreAddresses :
            ReadingsOf(arrivals', upper(a)) = ReadingsOf(arrivals, upper(a)) =>
                /\ ReadingsOf(history', upper(a)) = ReadingsOf(history, upper(a))
                /\ ReadingsOf(latest', upper(a)) = ReadingsOf(latest, upper(a))]_vars

(* C17 witness: two sensors have been added to in turn, and a get_history of
   one of them, asked for under its lower-case address, returned two readings
   in the order of their adds, an older one having been left out. *)
C17_Witness ==
    /\ histResult.mac = "dd:ee:ff:00:00:02"
    /\ Len(histResult.result) = 2
    /\ histResult.result[1].timestamp < histResult.result[2].timestamp
    /\ Len(ReadingsOf(arrivals, upper(histResult.mac))) = 3
    /\ ReadingsOf(arrivals, "AA:BB:CC:00:00:01") # <<>>

(* the two maps agree: each sensor's latest reading is the newest reading of
   its history, and both maps know the same sensors *)
MapsAgree ==
    /\ DOMAIN latest = DOMAIN history
    /\ \A m \in DOMAIN latest :
          history[m] # <<>> /\ history[m][Len(history[m])] = latest[m]

(* C16: at most one thread is inside the critical section; while a reader
   is inside it no add is part-way through and the two maps agree, so what
   get_latest, get_all_latest and get_history return is what the maps held
   between two whole adds. *)
C16_AddIsAtomicForReaders ==
    /\ [](lock = "add" <=> addPc \in {"latest", "append", "cleanup", "release"})
    /\ [](lock = "read" <=> readPc = "read")
    /\ [](readPc = "read" => MapsAgree)
    /\ [](addPc \in {"idle", "acquire"} => MapsAgree)
    /\ [][(readPc = "read" /\ readPc' = "idle") =>
            /\ MapsAgree
            /\ returned'.op = "get_latest" =>
                  returned'.latest = get_latest(latest, returned'.mac)
            /\ returned'.op = "get_all_latest" => returned'.all.items = latest
            /\ returned'.op = "get_history" =>
                  IsSubseqOf(returned'.hist, ReadingsOf(history, upper(returned'.mac)))]_vars

(* C16 witness: an add has set the latest reading of a sensor and not yet
   appended it to the history, while a reader is waiting for the lock. *)
C16_Witness ==
    /\ lock = "add" /\ addPc = "append"
    /\ readPc = "acquire"
    /\ ~MapsAgree
    /\ TotalAdds >= 1

(* C18: the map get_all_latest returned keeps the sensors and the readings
   it had when it was returned, whatever is added afterwards. *)
C18_SnapshotIsIndependent ==
    /\ [](returned.op = "get_all_latest" => Contents(returned.all) = returned.all.items)
    /\ [][(returned.op = "get_all_latest" /\ returned'.op = "get_all_latest") =>
            Contents(returned.all)' = Contents(returned.all)]_vars

(* C18 witness: after get_all_latest returned, one add has replaced the
   reading of a sensor in the map and another has brought in a new sensor. *)
C18_Witness ==
    /\ returned.op = "get_all_latest"
    /\ DOMAIN Contents(returned.all) # {}
    /\ DOMAIN Contents(returned.all) # DOMAIN latest
    /\ \E m \in DOMAIN Contents(returned.all) : Contents(returned.all)[m] # latest[m]

----------------------------------------------------------------------------
(* Advertisement routing: claims *)

(* some decoder recognises adv and decodes it into a reading *)
Decodes(adv) ==
    \E i \in DOMAIN Parsers :
        can_parse(Parsers[i], adv) /\ IsSome(parse(Parsers[i], "", adv, 0))

(* C10: a callback registers an unknown device only when the advertisement
   it was given decodes into a reading. *)
C10_RegistersOnlyDecoded ==
    lastCallback.registered => Decodes(lastCallback.adv)

(* a callback ran: it left its log, or stored a reading *)
CallbackStep == lastCallback' # lastCallback \/ arrivals' # arrivals

(* the kind the configuration records for mac *)
KindOf(ss, mac) == ss[CHOOSE i \in DOMAIN ss : ss[i].mac = mac].type

(* C11: a callback for a device already in the configuration calls only the
   decoder of the recorded kind and registers nothing; no step changes the
   kind of a known device; and neither the configuration nor the devices
   table ever holds two entries for one address. *)
C11_KnownDeviceFastPath ==
    /\ [][(CallbackStep /\ lastCallback'.mac \in get_sensor_macs(sensors)) =>
            /\ lastCallback'.probed = {KindOf(sensors, lastCallback'.mac)}
            /\ ~lastCallback'.registered
            /\ sensors' = sensors /\ devices' = devices
            /\ discovered_macs' = discovered_macs]_vars
    /\ [][\A m \in get_sensor_macs(sensors) :
            /\ m \in get_sensor_macs(sensors')
            /\ KindOf(sensors', m) = KindOf(sensors, m)]_vars
    /\ [](\A i, j \in DOMAIN sensors : sensors[i].mac = sensors[j].mac => i = j)
    /\ [](\A r, q \in devices : r.mac = q.mac => r = q)

(* C11 witness: an auto-registered Ruuvi device has sent a frame that only
   the Xiaomi decoder accepts; the Ruuvi decoder alone was called, nothing
   was stored and nothing registered. *)
C11_Witness ==
    /\ lastCallback.mac \in discovered_macs
    /\ lastCallback.mac \in get_sensor_macs(sensors)
    /\ KindOf(sensors, lastCallback.mac) = "ruuvi"
    /\ XiaomiCanParse(lastCallback.adv)
    /\ lastCallback.probed = {"ruuvi"}
    /\ ~lastCallback.registered /\ ~lastCallback.stored

----------------------------------------------------------------------------
(* RemotePoller: claims *)

(* the request ended in a transport error or timeout, with a status other
   than 200, or with a body that does not parse *)
Failed(resp) ==
    \/ resp.kind \in {"error", "timeout"}
    \/ resp.kind = "http" /\ resp.status # 200
    \/ resp.kind = "http" /\ ~resp.body.json
    \/ resp.kind = "http" /\ IsSome(resp.body.weather)
          /\ IsNone(Get(resp.body.weather).temperature)

(* the step in which site s's task handles a failed request *)
FailedPollStep(s) ==
    /\ sitePc[s] \in {"post_wait", "get_wait"}
    /\ sitePc'[s] = "sleep"
    /\ lastPoll'.site = s
    /\ Failed(lastPoll'.resp)

(* C4: handling a failed poll leaves the site's entry offline with
   last_error set, its sensors, weather and last_fetch as they were, every
   other entry as it was, and the persisted cache untouched. *)
C4_FailedPollKeepsCache ==
    [][\A s \in Sites : FailedPollStep(s) =>
          /\ ~data'[s].online
          /\ IsSome(data'[s].last_error)
          /\ data'[s].sensors = data[s].sensors
          /\ data'[s].weather = data[s].weather
          /\ data'[s].last_fetch = data[s].last_fetch
          /\ DOMAIN data' = DOMAIN data
          /\ \A k \in DOMAIN data \ {s} : data'[k] = data[k]
          /\ settings' = settings]_vars

(* C4 witness: a site whose last poll failed after an earlier success is
   offline with an error, and still shows the sensors and the persisted
   cache of the success. *)
C4_Witness ==
    \E s \in Sites :
        /\ sitePc[s] = "sleep" /\ lastPoll.site = s /\ Failed(lastPoll.resp)
        /\ ~data[s].online /\ IsSome(data[s].last_error)
        /\ data[s].sensors # <<>> /\ IsSome(data[s].last_fetch)
        /\ s \in DOMAIN settings

(* the step in which site s's task handles a 200 response whose body parses *)
GoodPollStep(s) ==
    /\ sitePc[s] \in {"post_wait", "get_wait"}
    /\ sitePc'[s] = "sleep"
    /\ lastPoll'.site = s
    /\ ~Failed(lastPoll'.resp)

(* what a good poll leaves in the site's entry: the sensors and the weather
   of the response and nothing of the old entry, fetched now, online, with no
   error; every other entry as it was *)
EntryReplaced(s) ==
    LET body == lastPoll'.resp.body
    IN /\ data'[s].online
       /\ data'[s].last_error = None
       /\ data'[s].last_fetch = Some(now)
       /\ Len(data'[s].sensors) = Len(body.sensors)
       /\ \A i \in DOMAIN body.sensors :
             data'[s].sensors[i].temperature = body.sensors[i].temperature
       /\ IsSome(data'[s].weather) = IsSome(body.weather)
       /\ DOMAIN data' = DOMAIN data
       /\ \A k \in DOMAIN data \ {s} : data'[k] = data[k]

(* C19 as stated: after a good poll the entry is the parsed response, online
   with no error, and the settings table holds that state under the site's
   key. *)
C19_GoodPollStoredAndPersisted ==
    [][\A s \in Sites : GoodPollStep(s) =>
          /\ EntryReplaced(s)
          /\ s \in DOMAIN settings'
          /\ settings'[s] = CacheBlob(data'[s])]_vars

(* C19 amended: after a good poll the entry is the parsed response, online
   with no error; the state is written to the settings table under the site's
   key and no other, unless the write fails, which leaves the table as it
   was. *)
C19_GoodPollStoredWriteAttempted ==
    [][\A s \in Sites : GoodPollStep(s) =>
          /\ EntryReplaced(s)
          /\ \/ settings' = Put(settings, s, CacheBlob(data'[s]))
             \/ settings' = settings]_vars

(* C19 witness: a poll that ended some time after the start has succeeded:
   the site is online with no error, fetched now, and the settings table
   holds the new state. *)
C19_Witness ==
    \E s \in Sites :
        /\ sitePc[s] = "sleep" /\ lastPoll.site = s /\ ~Failed(lastPoll.resp)
        /\ now > 0 /\ data[s].last_fetch = Some(now)
        /\ data[s].online /\ data[s].last_error = None
        /\ data[s].sensors # <<>>
        /\ s \in DOMAIN settings /\ settings[s] = CacheBlob(data[s])

(* the entry a fresh engine builds for site s from a settings table that
   holds nothing but the saved state of entry e *)
Reloaded(e, s) ==
    LET saved == _save_cache_to_db([k \in {} |-> <<>>], [k \in {s} |-> e], s, TRUE)
    IN _load_cache_from_db(saved, [k \in {s} |-> RemoteSiteData(s)], s)[s]

(* the engine has just been constructed *)
Constructed == session = "none" /\ \A s \in Sites : sitePc[s] = "new"

(* C20: saving an entry and loading it again gives the same sensors, weather
   and last_fetch, offline; and an engine constructed on a settings table
   shows, for each configured site with a saved blob, the state of that blob,
   offline and with no error, and the default entry for every other site. *)
C20_CacheSurvivesRestart ==
    /\ [](\A s \in DOMAIN data :
            LET e == Reloaded(data[s], s)
            IN /\ e.sensors = data[s].sensors
               /\ e.weather = data[s].weather
               /\ e.last_fetch = data[s].last_fetch
               /\ ~e.online)
    /\ [](Constructed =>
            \A s \in Sites :
                IF s \in DOMAIN settings
                THEN /\ CacheBlob(data[s]) = settings[s]
                     /\ ~data[s].online /\ data[s].last_error = None
                ELSE data[s] = RemoteSiteData(s))
    /\ [][(session = "closed" /\ session' = "none") =>
            \A s \in Sites :
                (data[s].online /\ s \in DOMAIN settings
                   /\ settings[s] = CacheBlob(data[s])) =>
                    /\ data'[s].sensors = data[s].sensors
                    /\ data'[s].weather = data[s].weather
                    /\ data'[s].last_fetch = data[s].last_fetch
                    /\ ~data'[s].online]_vars

(* C20 witness: an engine constructed after an earlier life of the process
   shows, before its polling has started, a site with the sensors, the weather
   and the fetch time of a saved blob, offline. *)
C20_Witness ==
    /\ Constructed
    /\ \E s \in Sites :
          /\ s \in DOMAIN settings
          /\ data[s].sensors # <<>> /\ IsSome(data[s].weather)
          /\ IsSome(data[s].last_fetch) /\ Get(data[s].last_fetch) > 0
          /\ Get(data[s].last_fetch) % 86400 # 0
          /\ ~data[s].online

(* C5: once a peer has answered 404 to POST /sync, no later step issues
   POST /sync to that peer. *)
C5_NoPostAfter404 ==
    [][\A s \in Sites :
          saw404[s] => ~(sitePc[s] # "post_wait" /\ sitePc'[s] = "post_wait")]_vars

(* C9: a polling task ends only when the poller is stopped; a failed
   iteration is recorded as offline with last_error set and is followed by
   the poll_interval sleep, after which the next poll starts. *)
C9_LoopEndsOnlyOnStop ==
    /\ [](\A s \in Sites : sitePc[s] \in {"dead", "done"} => session = "closed")
    /\ [][\A s \in Sites : FailedPollStep(s) =>
             /\ ~data'[s].online /\ IsSome(data'[s].last_error)
             /\ siteWake'[s] = now + poll_interval]_vars
    /\ [][\A s \in Sites : (sitePc[s] = "sleep" /\ sitePc'[s] # "sleep") =>
             (sitePc'[s] = "done" \/ (sitePc'[s] = "poll" /\ now >= siteWake[s]))]_vars

(* the step in which site s's own polling task handles the end of a request *)
OwnPollStep(s) ==
    /\ sitePc[s] \in {"post_wait", "get_wait"}
    /\ sitePc'[s] = "sleep"
    /\ lastPoll'.site = s

(* a step of the inbound sync handler: the cache changes while no polling
   task moves and the poller is neither started nor stopped *)
InboundStep == data' # data /\ sitePc' = sitePc /\ session' = session

(* the keys whose entry a step writes *)
Written == {k \in DOMAIN data' : k \notin DOMAIN data \/ data'[k] # data[k]}

(* C21 as stated: the cache entry of a configured site changes only in a
   step of that site's own polling task. *)
C21_EntryOwnedByItsTask ==
    [][\A s \in Sites : data'[s] # data[s] => OwnPollStep(s)]_vars

(* C21 amended: the cache entry of a configured site changes only in a step
   of that site's own polling task or of the inbound sync handler; a polling
   task writes no entry but its own, and the inbound handler writes only the
   entry named by the snapshot it received. *)
C21_EntryWrittenByTaskOrInbound ==
    /\ [][\A s \in Sites : data'[s] # data[s] => (OwnPollStep(s) \/ InboundStep)]_vars
    /\ [][\A s \in Sites : OwnPollStep(s) => Written \subseteq {s}]_vars
    /\ [][InboundStep =>
            (Cardinality(Written) = 1 /\ \A k \in Written : data'[k].site_name = k)]_vars

(* C21 witness: a peer's first request is still in flight, and its entry
   already holds a snapshot, which the inbound handler has stored. *)
C21_Witness ==
    /\ now = 0 /\ sitePc["lake"] = "post_wait" /\ ~saw404["lake"]
    /\ data["lake"].online /\ data["lake"].sensors # <<>>

(* C22: an entry stored by the inbound sync handler can be told from every
   entry that a poll of the same site ending at the same time could have
   stored. *)
C22_IncomingIsTagged ==
    [][InboundStep =>
          \A k \in DOMAIN data' :
              (k \notin DOMAIN data \/ data'[k] # data[k]) =>
                  \A resp \in Responses :
                      (resp.kind = "http" /\ resp.status = 200 /\ ~Failed(resp)) =>
                          data'[k] # _parse_site_data(resp.body, k, now)]_vars

(* a step in which stop() cancels a task that had not ended *)
StopStep == \E s \in Sites : sitePc[s] # "done" /\ sitePc'[s] = "done"

(* C23: a call of stop() leaves every polling task ended and the session
   closed, and no request is issued once a task has been stopped. *)
C23_StopEndsTasksAndSession ==
    /\ [][StopStep =>
            (session' = "closed" /\ \A s \in Sites : sitePc'[s] \in {"done", "dead"})]_vars
    /\ [][\A s \in Sites : sitePc[s] = "done" => sitePc'[s] \in {"done", "new"}]_vars

----------------------------------------------------------------------------
(* Aggregator: claims *)

RowsOfKey(rows, mac, ts) ==
    {i \in DOMAIN rows : rows[i].mac = upper(mac) /\ rows[i].timestamp = ts}
RowSet(rows) == {rows[i] : i \in DOMAIN rows}

(* the step in which _run wakes and _aggregate runs *)
AggregateStep == aggPc = "sleep" /\ aggLeft = 0 /\ aggLeft' = AGGREGATION_INTERVAL

(* C8: the readings table never holds two rows with the same (mac,
   timestamp); an aggregation leaves, for every sensor it writes, exactly one
   row for the bucket, carrying the statistics of the readings now in the
   window, adds a row only for a key that was not there, and leaves the rows
   of other keys alone; and writing any stored row a second time changes
   nothing. *)
C8_OneBucketPerKey ==
    /\ [](\A i, j \in DOMAIN readingsTable :
             SameKey(readingsTable[i], readingsTable[j]) => i = j)
    /\ [][AggregateStep =>
            /\ \A m \in lastAggregate'.written :
                  \E i \in DOMAIN readingsTable' :
                      /\ RowsOfKey(readingsTable', m, BucketStart(now)) = {i}
                      /\ readingsTable'[i] = AggregateRow(m, Recent(history, m, now), now)
            /\ Len(readingsTable') = Len(readingsTable)
                  + Cardinality(lastAggregate'.written \ lastAggregate'.replaced)
            /\ \A r \in RowSet(readingsTable) :
                  (\A m \in lastAggregate'.written :
                        ~(r.mac = upper(m) /\ r.timestamp = BucketStart(now)))
                  => r \in RowSet(readingsTable')]_vars
    /\ [](\A i \in DOMAIN readingsTable :
             LET once == save_aggregated_reading(readingsTable, readingsTable[i], TRUE)
             IN save_aggregated_reading(once, readingsTable[i], TRUE) = once)

(* C8 witness: an aggregation has just rewritten a bucket that was already
   stored, and the row now counts more than one reading. *)
C8_Witness ==
    \E m \in lastAggregate.replaced :
        \E i \in DOMAIN readingsTable :
            /\ readingsTable[i].mac = upper(m)
            /\ readingsTable[i].timestamp = lastAggregate.bucket
            /\ readingsTable[i].sample_count >= 2

(* the readings stored for sensor m whose timestamps lie within the
   AGGREGATION_INTERVAL seconds ending at t *)
WindowOf(m, t) ==
    SelectSeq(ReadingsOf(arrivals, upper(m)),
              LAMBDA r : r.timestamp >= t - AGGREGATION_INTERVAL /\ r.timestamp <= t)
TempsOf(w) == [i \in DOMAIN w |-> w[i].temperature]
(* avg is the mean of xs, rounded down to the model's unit *)
IsMeanOf(avg, xs) ==
    /\ xs # <<>>
    /\ avg * Len(xs) <= SeqSum(xs)
    /\ SeqSum(xs) < (avg + 1) * Len(xs)
IsOptMeanOf(avg, xs) == IF xs = <<>> THEN IsNone(avg) ELSE IsSome(avg) /\ IsMeanOf(Get(avg), xs)

(* C24: every row an aggregation writes carries the aggregation time floored
   to the 5-minute grid, and its statistics are those of the sensor's
   readings stamped within the 300 seconds ending at the aggregation time:
   their number, the minimum, mean and maximum of their temperatures, and the
   means of humidity and pressure over the readings that carry the field
   (absent when none does). *)
C24_BucketIsReferenceAggregation ==
    [][AggregateStep =>
          \A m \in lastAggregate'.written :
              \E i \in RowsOfKey(readingsTable', m, now - (now % 300)) :
                  LET row == readingsTable'[i]
                      w == WindowOf(m, now)
                  IN /\ w # <<>>
                     /\ row.sample_count = Len(w)
                     /\ \A k \in DOMAIN w : row.temp_min <= w[k].temperature
                     /\ \A k \in DOMAIN w : row.temp_max >= w[k].temperature
                     /\ \E k \in DOMAIN w : row.temp_min = w[k].temperature
                     /\ \E k \in DOMAIN w : row.temp_max = w[k].temperature
                     /\ IsMeanOf(row.temp_avg, TempsOf(w))
                     /\ IsOptMeanOf(row.humidity_avg, Present(w, "humidity"))
                     /\ IsOptMeanOf(row.pressure_avg, Present(w, "pressure"))]_vars

(* the last value of field f that a reading of w reports, None when no
   reading of w reports one *)
LastReported(w, f) ==
    LET xs == Present(w, f)
    IN IF xs = <<>> THEN None ELSE Some(xs[Len(xs)])

(* C25: every row an aggregation writes carries, as battery voltage and as
   battery percent, the most recent value that a reading of its window
   reports, and so lacks one only when no reading of the window reports it. *)
C25_BatteryIsLastReported ==
    [][AggregateStep =>
          \A m \in lastAggregate'.written :
              \A i \in RowsOfKey(readingsTable', m, BucketStart(now)) :
                  /\ readingsTable'[i].battery_voltage
                        = LastReported(WindowOf(m, now), "battery_voltage")
                  /\ readingsTable'[i].battery_percent
                        = LastReported(WindowOf(m, now), "battery_percent")]_vars

RowsOfSensor(rows, m) == {r \in RowSet(rows) : r.mac = upper(m)}

(* C26: an aggregation leaves the rows of every configured sensor that has no
   reading stamped within the 300 seconds ending at the aggregation time as
   they were, writing none for it; and every row of the readings table
   counts at least one reading. *)
C26_NoBucketWithoutReadings ==
    /\ [][AggregateStep =>
            \A m \in get_sensor_macs(sensors) :
                WindowOf(m, now) = <<>> =>
                    RowsOfSensor(readingsTable', m) = RowsOfSensor(readingsTable, m)]_vars
    /\ [](\A i \in DOMAIN readingsTable : readingsTable[i].sample_count >= 1)

(* a step in which the weather task makes a fetch: the one made as it starts,
   or the one after a sleep *)
WeatherStep ==
    /\ weatherPc = "first" \/ (weatherPc = "sleep" /\ weatherLeft = 0)
    /\ lastTick'.task = "weather"
    /\ <<weatherPc', weatherLeft'>> # <<weatherPc, weatherLeft>>

(* C27: a fetch of the weather task that raises, the first one included,
   leaves the aggregation task where it was and the weather task asleep
   until its next fetch; an aggregation that raises leaves the weather task
   where it was and the aggregation task asleep until its next tick. *)
C27_TasksFailIndependently ==
    /\ [][(WeatherStep /\ lastTick'.raised) =>
            /\ aggPc' = aggPc /\ aggLeft' = aggLeft /\ readingsTable' = readingsTable
            /\ weatherPc' = "sleep" /\ weatherLeft' = WEATHER_FETCH_INTERVAL]_vars
    /\ [][(AggregateStep /\ lastTick'.task = "aggregate" /\ lastTick'.raised) =>
            /\ weatherPc' = weatherPc /\ weatherLeft' = weatherLeft
            /\ weatherTable' = weatherTable
            /\ aggPc' = "sleep" /\ aggLeft' = AGGREGATION_INTERVAL]_vars

(* a call of Aggregator.stop() *)
StopCallStep == stopResult'.calls # stopResult.calls

(* C28: a call of stop() takes no time, raises nothing and leaves neither
   task asleep or fetching; a call made while the aggregator is not running
   changes nothing; and from a call until the next start() no row is
   written to the readings table or to the weather table. *)
C28_StopImmediateIdempotent ==
    /\ [][StopCallStep =>
            /\ now' = now
            /\ ~stopResult'.raised
            /\ ~aggRunning'
            /\ aggPc' # "sleep"
            /\ weatherPc' \notin {"first", "sleep"}]_vars
    /\ [][(StopCallStep /\ ~aggRunning) =>
            UNCHANGED <<aggRunning, aggPc, aggLeft, weatherPc, weatherLeft,
                        readingsTable, weatherTable>>]_vars
    /\ [][(stopResult.calls > 0 /\ ~aggRunning) =>
            (readingsTable' = readingsTable /\ weatherTable' = weatherTable)]_vars

(* C29: a callback in which the write of the device record fails still
   adds the reading that the advertisement decodes into to SensorStore. *)
C29_WriteFailureKeepsIngestion ==
    [][(CallbackStep /\ lastCallback'.raised) =>
          (Decodes(lastCallback'.adv) =>
              /\ lastCallback'.stored
              /\ arrivals' # arrivals)]_vars

----------------------------------------------------------------------------
(* Decoders: claims *)

(* a raw word read as a signed 16-bit number *)
AsSigned16(w) == IF w >= 32768 THEN w - 65536 ELSE w

(* C30: a format-5 frame whose raw temperature is -32768 decodes to nothing;
   any other 18-byte format-5 frame decodes to a reading whose temperature is
   the raw word times 0.005 C, whose humidity is absent exactly when the raw
   word is 65535 (else the word times 0.0025 %), whose pressure is absent
   exactly when the raw word is 65535 (else the word plus 50000 Pa), and
   whose battery voltage is absent exactly when the top 11 bits of the power
   word are 2047 (else those bits plus 1600 mV, whatever the low 5 bits). *)
C30_Df5Sentinels ==
    (decodePc = "done" /\ decoder = "ruuvi" /\ sample.kind = "df5") =>
        IF AsSigned16(sample.temp) = -32768
        THEN decoded = None
        ELSE /\ IsSome(decoded)
             /\ Get(decoded).temperature = 5 * AsSigned16(sample.temp)
             /\ IsNone(Get(decoded).humidity) <=> sample.hum = 65535
             /\ sample.hum # 65535 => Get(decoded).humidity = Some(25 * sample.hum)
             /\ IsNone(Get(decoded).pressure) <=> sample.pres = 65535
             /\ sample.pres # 65535 => Get(decoded).pressure = Some(sample.pres + 50000)
             /\ IsNone(Get(decoded).battery_voltage) <=> sample.power >= 2047 * 32
             /\ sample.power < 2047 * 32 =>
                   Get(decoded).battery_voltage
                      = Some((sample.power - (sample.power % 32)) \div 32 + 1600)

(* C30 witness: a decoded frame whose humidity is at the sentinel while its
   pressure and battery voltage are not, with low power bits set. *)
C30_Witness ==
    /\ decodePc = "done"
    /\ decoder = "ruuvi"
    /\ sample.kind = "df5"
    /\ sample.hum = 65535 /\ sample.pres = 49788 /\ sample.power = 65503
    /\ IsSome(decoded)
    /\ IsNone(Get(decoded).humidity)
    /\ Get(decoded).battery_voltage = Some(3646)

(* a byte read as a signed 8-bit number *)
AsSigned8(b) == IF b >= 128 THEN b - 256 ELSE b

(* C31: a format-3 frame of at least 14 bytes decodes to a reading whose
   temperature, in hundredths of a degree, is 100 i + f when the signed
   integer byte i is not negative and 100 i - f when it is, f being the
   fraction byte; an integer part of zero gives a temperature that is not
   negative. *)
C31_Df3SignedFraction ==
    (decodePc = "done" /\ decoder = "ruuvi" /\ sample.kind = "df3") =>
        LET i == AsSigned8(sample.int)
            f == sample.frac
        IN /\ IsSome(decoded)
           /\ Get(decoded).temperature
                 = 10 * (IF i >= 0 THEN 100 * i + f ELSE 100 * i - f)
           /\ i = 0 => Get(decoded).temperature >= 0

(* C31 witness: a decoded format-3 frame with a negative integer part and a
   fraction, colder than its integer part. *)
C31_Witness ==
    /\ decodePc = "done"
    /\ decoder = "ruuvi"
    /\ sample.kind = "df3"
    /\ sample.int = 235 /\ sample.frac = 50
    /\ IsSome(decoded)
    /\ Get(decoded).temperature = -21500

(* the length of the payload a sample puts under the Xiaomi service key *)
XiaomiLen(sm) == Len(FrameOf(sm).service_data[ATC_SERVICE_UUID])
UnderXiaomiKey(sm) == sm.kind \in {"atc", "pvvx"} \/ (sm.kind = "raw" /\ sm.key = "xiaomi")

(* what the Xiaomi parser does with an ATC frame and with a PVVX frame it
   accepts *)
AtcDecoded ==
    sample.kind = "atc" =>
        /\ IsSome(decoded)
        /\ Get(decoded).temperature = 100 * AsSigned16(sample.temp)
PvvxDecoded ==
    /\ IsSome(decoded)
    /\ Get(decoded).temperature = 10 * AsSigned16(sample.temp)

(* C32: a 13-byte payload under the Xiaomi service key decodes with the ATC
   layout and every payload of 15 bytes or more with the PVVX layout;
   can_parse is true for exactly those lengths and the parser returns a
   reading for each of them. *)
C32_XiaomiByLength ==
    (decodePc = "done" /\ decoder = "xiaomi" /\ UnderXiaomiKey(sample)) =>
        /\ AtcDecoded
        /\ sample.kind = "pvvx" => PvvxDecoded
        /\ can_parse("xiaomi", FrameOf(sample))
              <=> (XiaomiLen(sample) = 13 \/ XiaomiLen(sample) >= 15)
        /\ (XiaomiLen(sample) = 13 \/ XiaomiLen(sample) >= 15) => IsSome(decoded)

(* C32 as the parser has it: PVVX payloads are those of 15, 16 or 17 bytes;
   can_parse is true for lengths 13, 15, 16 and 17 only, the parser returns
   a reading for each of them, and nothing for any other length. *)
C32_XiaomiLengths13And15To17 ==
    (decodePc = "done" /\ decoder = "xiaomi" /\ UnderXiaomiKey(sample)) =>
        /\ AtcDecoded
        /\ (sample.kind = "pvvx" /\ sample.len \in 15..17) => PvvxDecoded
        /\ can_parse("xiaomi", FrameOf(sample)) <=> XiaomiLen(sample) \in {13, 15, 16, 17}
        /\ IsSome(decoded) <=> XiaomiLen(sample) \in {13, 15, 16, 17}

(* C32 witness: a PVVX frame of 17 bytes with a temperature below zero has
   been decoded by the Xiaomi parser. *)
C32_Witness ==
    /\ decodePc = "done"
    /\ decoder = "xiaomi"
    /\ sample.kind = "pvvx"
    /\ sample.len = 17
    /\ sample.temp = 65535
    /\ IsSome(decoded)
    /\ Get(decoded).temperature = -10

(* the payload a record carries for the parser it was handed to, <<>> when
   the record lacks that parser's key *)
PayloadFor(kind, adv) ==
    IF kind = "ruuvi"
    THEN IF RUUVI_MANUFACTURER_ID \in DOMAIN adv.manufacturer_data
         THEN adv.manufacturer_data[RUUVI_MANUFACTURER_ID] ELSE <<>>
    ELSE IF ATC_SERVICE_UUID \in DOMAIN adv.service_data
         THEN adv.service_data[ATC_SERVICE_UUID] ELSE <<>>

(* the payload is shorter than the fixed length of its format *)
TooShort(kind, d) ==
    IF kind = "ruuvi"
    THEN \/ d = <<>>
         \/ d[1] = 3 /\ Len(d) < 14
         \/ d[1] = 5 /\ Len(d) < 18
    ELSE Len(d) < 13 \/ Len(d) = 14

(* C33: a parser handed any record returns a reading or nothing and never
   raises; it returns nothing for a record that lacks its key and for a
   payload shorter than its format's length (14 bytes for format 3, 18 for
   format 5, 13 for ATC, 15 for PVVX), also when can_parse accepted the
   record. *)
C33_DecodeNeverRaises ==
    /\ decodePc # "raised"
    /\ (decodePc = "done" /\ TooShort(decoder, PayloadFor(decoder, FrameOf(sample))))
          => decoded = None

(* C33 witness: the Ruuvi parser was handed a 17-byte payload that starts
   with the format-5 byte, which can_parse accepts, and returned nothing. *)
C33_Witness ==
    /\ decodePc = "done"
    /\ decoder = "ruuvi"
    /\ sample.kind = "raw" /\ sample.key = "ruuvi" /\ sample.first = 5 /\ sample.len = 17
    /\ can_parse("ruuvi", FrameOf(sample))
    /\ decoded = None

(* C34: the format-5 payload 05 00C8 8000 C27C 0000 0000 FFC4 00 0200
   decodes to a reading whose temperature is 2.00 C, with humidity,
   pressure and battery voltage given by the format-5 formulas. *)
C34_Df5ExampleAsWritten ==
    (decodePc = "done" /\ decoder = "ruuvi" /\ sample.kind = "example"
        /\ sample.payload = Df5ExampleShort) =>
        /\ IsSome(decoded)
        /\ Get(decoded).temperature = 2000

(* C34 as the decoder has it: the payload as written has 16 bytes and
   decodes to nothing; with the third acceleration word in place (18 bytes)
   it decodes to 0x00C8 x 0.005 = 1.00 C, humidity 0x8000 x 0.0025 = 81.92 %,
   pressure (0xC27C + 50000) Pa = 997.88 hPa and battery voltage
   (0xFFC4 >> 5) + 1600 = 3646 mV. *)
C34_Df5ExampleDecoded ==
    (decodePc = "done" /\ decoder = "ruuvi" /\ sample.kind = "example") =>
        IF sample.payload = Df5ExampleShort
        THEN decoded = None
        ELSE /\ IsSome(decoded)
             /\ Get(decoded).temperature = 1000
             /\ Get(decoded).humidity = Some(819200)
             /\ Get(decoded).pressure = Some(99788)
             /\ Get(decoded).battery_voltage = Some(3646)
             /\ Get(decoded).battery_percent = None

(* C34 witness: the 18-byte payload has been decoded to 1.00 C. *)
C34_Witness ==
    /\ decodePc = "done"
    /\ decoder = "ruuvi"
    /\ sample.kind = "example"
    /\ sample.payload = Df5ExampleFull
    /\ IsSome(decoded)
    /\ Get(decoded).temperature = 1000

----------------------------------------------------------------------------
(* Device registration: claims *)

UniqueOrders(rows) ==
    \A r1, r2 \in rows : r1.display_order = r2.display_order => r1 = r2

(* C35: no two rows of the devices table share a display_order; a step that
   registers devices gives each new row a display_order above every one
   already in the table and a mac not yet in it, and keeps every row that
   was there as it was; and syncing the configuration once more keeps every
   row, keeps the orders distinct, and changes nothing when repeated. *)
C35_DisplayOrderUnique ==
    /\ [](UniqueOrders(devices))
    /\ [][/\ devices \subseteq devices'
          /\ \A r \in devices' \ devices :
                /\ \A q \in devices : r.display_order > q.display_order
                /\ \A q \in devices : r.mac # q.mac]_vars
    /\ [](LET again == sync_devices_from_config(devices, sensors)
          IN /\ devices \subseteq again
             /\ UniqueOrders(again)
             /\ sync_devices_from_config(again, sensors) = again)

(* C35 witness: two discovered devices have been registered after the
   declared one, the callback that found the second one having just run. *)
C35_Witness ==
    /\ Cardinality(devices) = 3
    /\ lastCallback.registered
    /\ ~lastCallback.raised

----------------------------------------------------------------------------
(* Restart procedure: claims *)

(* the supervisor takes a reference to a handle it did not hold before *)
OpensHandle == scanner' # None /\ scanner' # scanner

(* the supervisor begins the wait named by its position *)
Enters(p) == pc' = p /\ pc # p

(* the waits of _reset_bluetooth_adapter, and the sleeps after a stop *)
PowerCycleStates == {"reset_pre", "err_reset"}
PauseStates == {"pause", "backoff"}

(* C36 as written: in every restart the steps occur in the order stop-handle,
   adapter power-cycle attempt, brief pause, open fresh handle, reset
   watchdog clock: a pause begins when a power-cycle attempt ends, and a
   handle is opened when a pause ends. *)
C36_RestartOrderAsWritten ==
    [][/\ (\E p \in PauseStates : Enters(p)) => pc \in PowerCycleStates
       /\ (OpensHandle /\ restart_count > 1) => pc \in PauseStates]_vars

(* C36: in every restart a fresh scan handle is opened only when the
   supervisor holds none, the previous one having been stopped or abandoned;
   the watchdog clock is reset each time a fresh handle has started; and the
   steps of a restart after a scan cycle occur in the order stop-handle,
   brief pause, adapter power-cycle attempt, open fresh handle, reset
   watchdog clock. *)
C36_RestartInOrder ==
    [][/\ Enters("pause") => (pc = "stopping" /\ scanner' = None)
       /\ Enters("loop_top") => (pc \in PauseStates /\ scanner = None)
       /\ Enters("reset_pre") => (pc = "loop_top" /\ scanner = None)
       /\ OpensHandle =>
            /\ scanner = None
            /\ pc' = "starting"
            /\ restart_count' > 1 => pc = "reset_pre"
       /\ (pc = "starting" /\ pc' = "scan_sleep") => last_data_time' = Some(now')]_vars

C36_Witness ==
    /\ restart_count > 1
    /\ handlesOpened > 1
    /\ lastExit \in {"watchdog", "proactive"}
    /\ pc = "scan_sleep"
    /\ scanner = Some(handlesOpened)
    /\ last_data_time = Some(cycle_start)

----------------------------------------------------------------------------
(* Peer sync preparation: claims *)

(* the step of peer s's task that leaves the preparation of a sync without
   a request having been issued *)
PreparationFails(s) ==
    /\ s \in Peers
    /\ sitePc[s] = "poll"
    /\ sitePc'[s] \notin {"poll", "post_wait", "done"}

(* C37: when the local-snapshot function raises while a peer sync is being
   prepared, the peer's entry is marked offline with last_error set, its
   sensors and weather are kept, and the peer's task goes on to the
   poll_interval sleep before its next poll. *)
C37_LocalSnapshotFailureHandled ==
    [][\A s \in Peers : PreparationFails(s) =>
          /\ ~data'[s].online
          /\ IsSome(data'[s].last_error)
          /\ data'[s].sensors = data[s].sensors
          /\ data'[s].weather = data[s].weather
          /\ sitePc'[s] = "sleep"
          /\ siteWake'[s] = now + poll_interval]_vars

----------------------------------------------------------------------------
(* Site cache flags: claims *)

(* the entry of site s is still the one _load_cache_from_db built from the
   blob an earlier life stored for it, whatever error a poll has recorded *)
LoadedFromCache(s) ==
    /\ s \in DOMAIN PersistedCache
    /\ s \in DOMAIN data
    /\ data[s] = [_load_cache_from_db(PersistedCache, data, s)[s]
                      EXCEPT !.last_error = data[s].last_error]
    /\ ~data[s].online

(* the step in which an inbound snapshot is stored under the name s *)
InboundFor(s) ==
    /\ InboundStep
    /\ s \in Written
    /\ data'[s].last_fetch = Some(now)

(* C38: in every state of the site cache an entry that is online has no
   last_error; an entry loaded from the persisted cache is offline when the
   engine is constructed; and an offline entry becomes online only in the
   step that handles a successful poll of that site or that stores an
   inbound snapshot for it. *)
C38_OnlineHasNoError ==
    /\ [](\A s \in DOMAIN data : data[s].online => data[s].last_error = None)
    /\ [](Constructed => \A s \in DOMAIN data : ~data[s].online)
    /\ [][\A s \in DOMAIN data' :
             (data'[s].online /\ (s \notin DOMAIN data \/ ~data[s].online)) =>
                (GoodPollStep(s) \/ InboundFor(s))]_vars

C38_Witness ==
    \E s \in Sites, p \in Sites :
       /\ LoadedFromCache(s)
       /\ data[s].sensors # <<>>
       /\ sitePc[s] = "sleep"
       /\ data[p].online
       /\ lastPoll.site = p
       /\ ~Failed(lastPoll.resp)

----------------------------------------------------------------------------
(* Tick windows: claims *)

(* the step in which _aggregate runs *)
TickStep == tickAt' # tickAt \/ counted' # counted \/ (aggLeft <= 0 /\ aggLeft' > 0)

(* the readings stored for the configured sensors since the aggregator was
   started at wall-clock time 0, as (mac, timestamp) *)
StoredSinceStart ==
    UNION {{<<m, get_history(history, m, 1, now)[i].timestamp>> :
               i \in {j \in DOMAIN get_history(history, m, 1, now) :
                         get_history(history, m, 1, now)[j].timestamp > 0}} :
              m \in get_sensor_macs(sensors)}

(* C39: while the aggregator runs, every reading stored for a configured
   sensor before a tick has been in the window of that tick or of an earlier
   one, and the window of a tick starts no later than the window of the tick
   before it ended, also when a tick's processing takes time. *)
C39_NoGapBetweenWindows ==
    [][TickStep =>
          /\ StoredSinceStart \subseteq counted'
          /\ IsSome(tickAt) => now - AGGREGATION_INTERVAL <= Get(tickAt)]_vars

----------------------------------------------------------------------------
(* Application start-up: claims *)

(* C40: when start() has failed partway and run() has returned, every
   component that was started has been stopped and the database is not
   open. *)
C40_FailedStartIsCleanedUp ==
    (appPc = "returned" /\ appFailed # "none") =>
        (appStarted = {} /\ appDb # "open")

====
